---- MODULE Spec2Model ----
(***************************************************************************)
(* State-machine model of the gitright backend: the JWT session and        *)
(* revocation scheme, the OAuth state check of the callback, the progress  *)
(* channel of the WebSocket handler, the badge / Markdown assembly, the    *)
(* PostgreSQL-backed caches and the batch analysis loop.                   *)
(*                                                                         *)
(* Time is counted in ticks; TicksPerSec ticks make one second, so that    *)
(* Go's time.Now().Unix() (whole seconds) and PostgreSQL's NOW()           *)
(* (sub-second) can be told apart.  Lifetimes are scaled down: what        *)
(* matters to the properties is how instants compare, not the durations.   *)
(***************************************************************************)
EXTENDS Integers, Sequences, FiniteSets, TLC

(* ------------------------------ bounds --------------------------------- *)
MaxTime == 4
TicksPerSec == 2
MaxTokens == 2
MaxStates == 2

MaxVersion == 1
MaxBatch == 3
\* the writes to the profile README that are followed
MaxRevisions == 2
\* the longest badge slice handed to organizeBadgesByCategory
MaxBadges == 3

(* ------------------------- program constants --------------------------- *)
\* INTERVAL '5 minutes', INTERVAL '7 days' and 24*time.Hour, scaled to ticks
RepositoryListTTL == 1
RepositoryAnalysisTTL == 3
ProfileTTL == 2
\* GitHubHandler.BatchAnalyze: the most repositories one request may name
BatchLimit == 10

\* GOOGLE_AI_MAX_RETRIES, the default of the configuration
MaxRetries == 2

\* 24*time.Hour, scaled to seconds of the model
JWTLifetimeSec == 1
\* 10*time.Minute, scaled to seconds of the model
OAuthStateTTLSec == 1

VARIABLES
    now,        \* the clock, in ticks
    sessions,   \* table sessions: id -> [state_type, state_value, expires_at]
    users,      \* table users: set of rows
    issued,     \* the tokens GenerateJWT has returned
    nStates,    \* OAuth states drawn so far (crypto/rand, taken to be fresh)
    loginAt,    \* history: state -> the tick at which Login stored it
    loggedOut,  \* history: JTIs for which Logout answered 200
    last,       \* the last request through AuthMiddleware and its outcome
    cb,         \* the callback requests in flight
    \* --- one WebSocket connection of HandleProfileGeneration ---
    wsPc,       \* where the handler stands
    progressCh, \* the buffered channel: the updates waiting in it
    chClosed,   \* close(progressCh) has run
    readerPc,   \* where the goroutine reading the channel stands
    held,       \* the update the reader has taken and is writing
    written,    \* the stages written to the WebSocket so far
    ctxDone,    \* the request context is cancelled
    genErr,     \* GenerateProfile returned an error
    lastSend,   \* what the last send found and did
    \* --- two runs of the content assembly on one input ---
    pipeIn,     \* the user, the request and the LLM response, or none yet
    runs,       \* each run: where it stands, its badge list, its document
    \* --- the caches kept in PostgreSQL, and what they cache ---
    listCache,      \* repository_list_cache: <<user_id, include_private>> -> row
    analysisCache,  \* repository_analysis_cache: github_id -> row
    profileCache,   \* generated_profiles: cache_key -> row
    ghVersion,      \* the state of the data at GitHub
    generated,      \* history: cache key -> when GenerateProfile last generated
    call,           \* the service call just made and what it did
    \* --- the profile repository <username>/<username> at GitHub ---
    readme,         \* README.md on branch main: whether it exists, and its SHA
    \* --- the LLM client of ContentGenerator and the requests using it ---
    sharedConfig,   \* cg.client.config, shared by all requests
    gen,            \* the generation requests in flight
    \* --- history of the sign-ins ---
    userHist        \* per GitHub account: the row first created, last written, last answered

authVars == <<now, sessions, users, issued, nStates, loginAt, loggedOut, last, cb>>
wsVars == <<wsPc, progressCh, chClosed, readerPc, held, written, ctxDone, genErr, lastSend>>

pipeVars == <<pipeIn, runs>>

cacheVars == <<listCache, analysisCache, profileCache, ghVersion, generated, call>>

deployVars == <<readme>>

llmVars == <<sharedConfig, gen>>

histVars == <<userHist>>

vars == <<authVars, wsVars, pipeVars, cacheVars, deployVars, llmVars, histVars>>

(* ------------------------------- time ---------------------------------- *)
\* time.Time.Unix(): whole seconds
Unix(t) == t \div TicksPerSec

\* time.Unix(sec, 0)
TimeOfUnix(sec) == sec * TicksPerSec

(* ------------------------- table sessions ------------------------------ *)
\* INSERT ... ON CONFLICT (id) DO UPDATE SET expires_at, state_value
UpsertSession(sess, id, stype, value, exp) ==
    IF id \in DOMAIN sess
    THEN [sess EXCEPT ![id].state_value = value, ![id].expires_at = exp]
    ELSE sess @@ (id :> [state_type |-> stype, state_value |-> value, expires_at |-> exp])

CreateOAuthState(sess, state, expiresAt) ==
    UpsertSession(sess, <<"oauth_state", state>>, "oauth_state", "valid", expiresAt)

ValidateOAuthStateNoExpiry(sess, state, t) ==
    LET id == <<"oauth_state", state>>
    IN  /\ id \in DOMAIN sess
        /\ sess[id].state_type = "oauth_state"
        /\ sess[id].state_value = "valid"

\* SELECT state_value ... WHERE id AND state_type AND expires_at > NOW(); value == "valid"
ValidateOAuthState(sess, state, t) ==
    LET id == <<"oauth_state", state>>
    IN  /\ id \in DOMAIN sess
        /\ sess[id].state_type = "oauth_state"
        /\ sess[id].expires_at > t
        /\ sess[id].state_value = "valid"

DeleteOAuthState(sess, state) ==
    LET id == <<"oauth_state", state>>
    IN  IF id \in DOMAIN sess /\ sess[id].state_type = "oauth_state"
        THEN [i \in DOMAIN sess \ {id} |-> sess[i]]
        ELSE sess

RevokeToken(sess, jti, expiresAt) ==
    UpsertSession(sess, <<"revoked", jti>>, "revoked_token", "revoked", expiresAt)

IsTokenRevokedAnyRow(sess, jti, t) ==
    \E id \in DOMAIN sess :
        sess[id].state_type = "revoked_token" /\ sess[id].expires_at > t

\* SELECT 1 ... WHERE id AND state_type = 'revoked_token' AND expires_at > NOW()
IsTokenRevoked(sess, jti, t) ==
    LET id == <<"revoked", jti>>
    IN  /\ id \in DOMAIN sess
        /\ sess[id].state_type = "revoked_token"
        /\ sess[id].expires_at > t

\* cleanup_expired_data(): DELETE FROM sessions WHERE expires_at < NOW()
CleanupSessions(sess, t) ==
    LET keep == {i \in DOMAIN sess : ~(sess[i].expires_at < t)}
    IN  [i \in keep |-> sess[i]]

(* ----------------------------- the JWT --------------------------------- *)
ServerSecret == "jwtSecret"
JWTHeader == "HS256"

\* HMAC-SHA256 of the message under the secret, taken to be collision free
createSignature(message, secret) == <<message, secret>>

\* jti stands for the 16 random bytes, t for time.Now()
GenerateJWT(userID, username, secret, expiresIn, jti, t) ==
    LET claims == [user_id |-> userID, username |-> username,
                   jti |-> jti, exp |-> Unix(t) + expiresIn]
    IN  <<JWTHeader, claims, createSignature(<<JWTHeader, claims>>, secret)>>

\* a JTI is a string, modelled as a sequence; <<>> is the empty string
EmptyJTI == <<>>

NoClaims == [user_id |-> 0, username |-> "", jti |-> EmptyJTI, exp |-> 0]

validateJWT(token, secret) ==
    IF Len(token) # 3
    THEN [ok |-> FALSE, claims |-> NoClaims]
    ELSE IF token[3] # createSignature(<<token[1], token[2]>>, secret)
    THEN [ok |-> FALSE, claims |-> NoClaims]
    ELSE [ok |-> TRUE, claims |-> token[2]]

(* -------------------------- AuthMiddleware ----------------------------- *)
NoUser == [id |-> 0, github_id |-> "", username |-> "", access_token |-> ""]

\* UserRepository.GetByID: the row, or an error (no row, or the query failed)
GetByID(usrs, id, dbOK) ==
    IF dbOK /\ \E u \in usrs : u.id = id
    THEN [err |-> FALSE, user |-> CHOOSE u \in usrs : u.id = id]
    ELSE [err |-> TRUE, user |-> NoUser]

\* the blocklist lookup AuthMiddleware makes for a non-empty JTI; dbOK: the
\* query succeeds
RevocationLookup(sess, claims, t, dbOK) ==
    IF claims.jti = EmptyJTI
    THEN [err |-> FALSE, revoked |-> FALSE]
    ELSE IF ~dbOK
    THEN [err |-> TRUE, revoked |-> FALSE]
    ELSE [err |-> FALSE, revoked |-> IsTokenRevoked(sess, claims.jti, t)]

NoCtx == [k \in {} |-> 0]
NoLookup == [err |-> FALSE, revoked |-> FALSE]
NoUserLookup == [err |-> FALSE, user |-> NoUser]

\* echo.ErrUnauthorized, returned before next(c): no context value is set.
\* stage is how far the middleware came, rev and usr the lookups it had made.
Unauthorized(stage, rev, usr) ==
    [pass |-> FALSE, status |-> 401, ctx |-> NoCtx, stage |-> stage,
     rev |-> rev, usr |-> usr]

AuthMiddlewareIgnoringLookupError(authHeader, secret, t, sess, usrs, revOK, usrOK) ==
    IF authHeader = <<>> THEN Unauthorized("header", NoLookup, NoUserLookup)
    ELSE IF Len(authHeader) # 2 \/ authHeader[1] # "Bearer"
    THEN Unauthorized("header", NoLookup, NoUserLookup)
    ELSE LET v == validateJWT(authHeader[2], secret)
         IN  IF ~v.ok THEN Unauthorized("token", NoLookup, NoUserLookup)
             ELSE IF Unix(t) > v.claims.exp
             THEN Unauthorized("expired", NoLookup, NoUserLookup)
             ELSE LET rev == RevocationLookup(sess, v.claims, t, revOK)
                  IN  IF v.claims.jti # EmptyJTI /\ rev.revoked
                      THEN Unauthorized("revoked", rev, NoUserLookup)
                      ELSE LET usr == GetByID(usrs, v.claims.user_id, usrOK)
                           IN  IF usr.err THEN Unauthorized("user", rev, usr)
                               ELSE [pass |-> TRUE, status |-> 200,
                                     ctx |-> [user |-> usr.user,
                                              user_id |-> v.claims.user_id,
                                              username |-> v.claims.username,
                                              access_token |-> usr.user.access_token,
                                              jwt_jti |-> v.claims.jti,
                                              jwt_exp |-> v.claims.exp],
                                     stage |-> "next", rev |-> rev, usr |-> usr]

\* authHeader is the Authorization header split at " "; <<>> is the empty
\* header.  revOK, usrOK: the two database queries succeed.
AuthMiddleware(authHeader, secret, t, sess, usrs, revOK, usrOK) ==
    IF authHeader = <<>> THEN Unauthorized("header", NoLookup, NoUserLookup)
    ELSE IF Len(authHeader) # 2 \/ authHeader[1] # "Bearer"
    THEN Unauthorized("header", NoLookup, NoUserLookup)
    ELSE LET v == validateJWT(authHeader[2], secret)
         IN  IF ~v.ok THEN Unauthorized("token", NoLookup, NoUserLookup)
             ELSE IF Unix(t) > v.claims.exp
             THEN Unauthorized("expired", NoLookup, NoUserLookup)
             ELSE LET rev == RevocationLookup(sess, v.claims, t, revOK)
                  IN  IF v.claims.jti # EmptyJTI /\ (rev.err \/ rev.revoked)
                      THEN Unauthorized("revoked", rev, NoUserLookup)
                      ELSE LET usr == GetByID(usrs, v.claims.user_id, usrOK)
                           IN  IF usr.err THEN Unauthorized("user", rev, usr)
                               ELSE [pass |-> TRUE, status |-> 200,
                                     ctx |-> [user |-> usr.user,
                                              user_id |-> v.claims.user_id,
                                              username |-> v.claims.username,
                                              access_token |-> usr.user.access_token,
                                              jwt_jti |-> v.claims.jti,
                                              jwt_exp |-> v.claims.exp],
                                     stage |-> "next", rev |-> rev, usr |-> usr]

\* what a client can put into the Authorization header: nothing, a header of
\* another form, an issued token, or a token it made or altered itself
TokensOf(tk) ==
    { tk,
      <<tk[1], tk[2]>>,
      <<tk[1], [tk[2] EXCEPT !.exp = @ + 1], tk[3]>>,
      <<tk[1], tk[2], createSignature(<<tk[1], tk[2]>>, "guess")>> }

Headers ==
    {<<>>, <<"Bearer">>}
    \cup UNION {{<<"Bearer", x>> : x \in TokensOf(tk)} : tk \in issued}
    \cup {<<"Basic", tk>> : tk \in issued}

(* ------------------------- protected handlers -------------------------- *)
\* AuthHandler.Me
Me(ctx, sess) == [status |-> 200, sessions |-> sess]

\* AuthHandler.Logout, with AuthService.RevokeSession; dbOK: the INSERT succeeds
Logout(ctx, sess, dbOK) ==
    IF ctx.jwt_jti = EmptyJTI
    THEN [status |-> 401, sessions |-> sess]
    ELSE IF ~dbOK
    THEN [status |-> 500, sessions |-> sess]
    ELSE [status |-> 200,
          sessions |-> RevokeToken(sess, ctx.jwt_jti, TimeOfUnix(ctx.jwt_exp))]

Handlers == {"me", "logout"}

NoRequest ==
    [seen |-> FALSE, hdr |-> <<>>, at |-> 0,
     res |-> Unauthorized("header", NoLookup, NoUserLookup), priorLogout |-> FALSE,
     answer |-> 0, failed |-> {}]

\* the database statements of a request that were run and failed: the
\* blocklist lookup and the user lookup of AuthMiddleware, the INSERT of Logout
FailedQueries(res, handler, usrOK, wrOK) ==
    {q \in {"IsTokenRevoked"} : res.rev.err}
    \cup {q \in {"GetByID"} : res.stage = "user" /\ ~usrOK}
    \cup {q \in {"RevokeToken"} : /\ res.pass /\ handler = "logout" /\ ~wrOK
                                  /\ res.ctx.jwt_jti # EmptyJTI}

\* the claims of the token in a header, when it has one that verifies
ClaimsIn(hdr) ==
    IF Len(hdr) = 2 THEN validateJWT(hdr[2], ServerSecret)
    ELSE [ok |-> FALSE, claims |-> NoClaims]

\* one request to a protected route: the middleware, then the handler
Request(hdr, handler, revOK, usrOK, wrOK) ==
    LET res == AuthMiddleware(hdr, ServerSecret, now, sessions, users, revOK, usrOK)
        h   == IF ~res.pass THEN [status |-> res.status, sessions |-> sessions]
               ELSE IF handler = "logout" THEN Logout(res.ctx, sessions, wrOK)
               ELSE Me(res.ctx, sessions)
    IN  /\ sessions' = h.sessions
        /\ loggedOut' = IF res.pass /\ handler = "logout" /\ h.status = 200
                        THEN loggedOut \cup {res.ctx.jwt_jti} ELSE loggedOut
        /\ last' = [seen |-> TRUE, hdr |-> hdr, at |-> now, res |-> res,
                    priorLogout |-> (ClaimsIn(hdr).ok
                                     /\ ClaimsIn(hdr).claims.jti \in loggedOut),
                    answer |-> h.status,
                    failed |-> FailedQueries(res, handler, usrOK, wrOK)]
        /\ UNCHANGED <<now, users, issued, nStates, loginAt, cb>>

(* ------------------------------ Login ---------------------------------- *)
\* AuthHandler.Login with AuthService.GenerateOAuthState: a fresh random state,
\* stored for 10 minutes; nothing is stored when rand or the INSERT fails
Login(randOK, dbOK) ==
    /\ nStates < MaxStates
    /\ nStates' = nStates + 1
    /\ IF randOK /\ dbOK
       THEN /\ sessions' = CreateOAuthState(sessions, <<nStates + 1>>,
                                            now + OAuthStateTTLSec * TicksPerSec)
            /\ loginAt' = loginAt @@ (<<nStates + 1>> :> now)
       ELSE UNCHANGED <<sessions, loginAt>>
    /\ UNCHANGED <<now, users, issued, loggedOut, last, cb>>

(* ----------------------------- Callback -------------------------------- *)

\* the query parameters a client can send; "" is a missing parameter,
\* "bad" a code GitHub does not accept, <<0>> a state nobody stored
Codes == {"", "bad", "codeA", "codeB"}
StateParams == {<<>>, <<0>>} \cup {<<n>> : n \in 1..nStates}

\* the GitHub account a code was granted for
GitHubUserOf(code) ==
    IF code = "codeA" THEN [id |-> "gh-a", login |-> "alice"]
    ELSE IF code = "codeA2" THEN [id |-> "gh-a", login |-> "alice2"]
    ELSE [id |-> "gh-b", login |-> "bob"]

\* the access token GitHub returns for a code
AccessTokenOf(code) ==
    IF code = "codeA" THEN "gho_A" ELSE IF code = "codeA2" THEN "gho_A2" ELSE "gho_B"

\* UserRepository.GetByGitHubID: the row, or an error
GetByGitHubID(usrs, githubID, dbOK) ==
    IF dbOK /\ \E u \in usrs : u.github_id = githubID
    THEN [err |-> FALSE, user |-> CHOOSE u \in usrs : u.github_id = githubID]
    ELSE [err |-> TRUE, user |-> NoUser]

\* UserRepository.Create without the UNIQUE constraint on github_id
CreateWithoutUnique(usrs, g, token, dbOK) ==
    IF ~dbOK THEN [err |-> TRUE, users |-> usrs, user |-> NoUser, conflict |-> FALSE]
    ELSE LET u == [id |-> Cardinality(usrs) + 1, github_id |-> g.id,
                   username |-> g.login, access_token |-> token]
         IN  [err |-> FALSE, users |-> usrs \cup {u}, user |-> u, conflict |-> FALSE]

\* UserRepository.Create: INSERT INTO users ... RETURNING id; github_id is
\* UNIQUE, so the INSERT fails when the account has a row
Create(usrs, g, token, dbOK) ==
    IF ~dbOK THEN [err |-> TRUE, users |-> usrs, user |-> NoUser, conflict |-> FALSE]
    ELSE IF \E u \in usrs : u.github_id = g.id
    THEN [err |-> TRUE, users |-> usrs, user |-> NoUser, conflict |-> TRUE]
    ELSE LET u == [id |-> Cardinality(usrs) + 1, github_id |-> g.id,
                   username |-> g.login, access_token |-> token]
         IN  [err |-> FALSE, users |-> usrs \cup {u}, user |-> u, conflict |-> FALSE]

\* UserRepository.Update: UPDATE users SET username, ..., access_token
\* WHERE id: the row of that id, as it is now, gets the fields of user
Update(usrs, user, dbOK) ==
    IF ~dbOK THEN [err |-> TRUE, users |-> usrs]
    ELSE [err |-> FALSE,
          users |-> {IF u.id = user.id
                     THEN [u EXCEPT !.username = user.username,
                                    !.access_token = user.access_token]
                     ELSE u : u \in usrs}]

\* AuthService.HandleCallback up to its read of the users table: ExchangeCode,
\* GetUser, GetUserEmails and GetByGitHubID
HandleCallbackLookup(usrs, code, ghOK, lookupOK) ==
    IF code = "bad" \/ ghOK # "ok"
    THEN [err |-> TRUE, existing |-> NoUserLookup]
    ELSE [err |-> FALSE, existing |-> GetByGitHubID(usrs, GitHubUserOf(code).id, lookupOK)]

\* AuthService.HandleCallback from its read on: Update of the row that was
\* read, or Create of a new row when the read gave an error or no row
HandleCallbackWrite(usrs, code, existing, writeOK) ==
    LET g == GitHubUserOf(code)
    IN  IF ~existing.err
        THEN LET u == [existing.user EXCEPT !.username = g.login,
                                            !.access_token = AccessTokenOf(code)]
                 w == Update(usrs, u, writeOK)
             IN  [err |-> w.err, users |-> w.users,
                  user |-> IF w.err THEN NoUser ELSE u, conflict |-> FALSE]
        ELSE Create(usrs, g, AccessTokenOf(code), writeOK)

\* AuthService.HandleCallback: exchange, GetUser / GetUserEmails, then Update of
\* the existing row or Create of a new one (github_id is UNIQUE)
HandleCallback(usrs, code, ghOK, lookupOK, writeOK) ==
    IF code = "bad" \/ ghOK = "exchange"
    THEN [err |-> TRUE, users |-> usrs, user |-> NoUser, wrote |-> FALSE]
    ELSE IF ghOK = "user"
    THEN [err |-> TRUE, users |-> usrs, user |-> NoUser, wrote |-> FALSE]
    ELSE LET g == GitHubUserOf(code)
             existing == GetByGitHubID(usrs, g.id, lookupOK)
         IN  IF ~existing.err
             THEN IF ~writeOK
                  THEN [err |-> TRUE, users |-> usrs, user |-> NoUser, wrote |-> FALSE]
                  ELSE LET u == [existing.user EXCEPT !.username = g.login,
                                                      !.access_token = AccessTokenOf(code)]
                       IN  [err |-> FALSE, users |-> (usrs \ {existing.user}) \cup {u},
                            user |-> u, wrote |-> TRUE]
             ELSE IF ~writeOK \/ \E u \in usrs : u.github_id = g.id
                  THEN [err |-> TRUE, users |-> usrs, user |-> NoUser, wrote |-> FALSE]
                  ELSE LET u == [id |-> Cardinality(usrs) + 1, github_id |-> g.id,
                                 username |-> g.login, access_token |-> AccessTokenOf(code)]
                       IN  [err |-> FALSE, users |-> usrs \cup {u}, user |-> u,
                            wrote |-> TRUE]

Idle ==
    [pc |-> "idle", code |-> "", state |-> <<>>, fresh |-> FALSE, exchanged |-> FALSE,
     wrote |-> FALSE, issuedToken |-> FALSE, status |-> 0, user |-> NoUser,
     missing |-> FALSE, existing |-> NoUserLookup, conflict |-> FALSE]

\* the state was stored by Login and is not older than its lifetime
StoredAndFresh(state, t) ==
    state \in DOMAIN loginAt /\ t - loginAt[state] <= OAuthStateTTLSec * TicksPerSec

\* AuthHandler.Callback up to and including the state check
CallbackValidate(p, code, state, dbOK) ==
    /\ cb[p].pc \in {"idle", "done"}
    /\ LET r == [Idle EXCEPT !.code = code, !.state = state,
                             !.fresh = StoredAndFresh(state, now)]
       IN  cb' = [cb EXCEPT ![p] =
                IF code = "" \/ state = <<>>
                THEN [r EXCEPT !.pc = "done", !.status = 400, !.code = "", !.missing = TRUE]
                ELSE IF ~(dbOK /\ ValidateOAuthState(sessions, state, now))
                THEN [r EXCEPT !.pc = "done", !.status = 400, !.code = ""]
                ELSE [r EXCEPT !.pc = "handle"]]
    /\ UNCHANGED <<now, sessions, users, issued, nStates, loginAt, loggedOut, last>>

\* AuthHandler.Callback: the call of HandleCallback
CallbackHandle(p, ghOK, lookupOK, writeOK) ==
    /\ cb[p].pc = "handle"
    /\ LET r == HandleCallback(users, cb[p].code, ghOK, lookupOK, writeOK)
       IN  /\ users' = r.users
           /\ cb' = [cb EXCEPT ![p] =
                IF r.err
                THEN [@ EXCEPT !.pc = "done", !.status = 500, !.exchanged = TRUE,
                               !.code = ""]
                ELSE [@ EXCEPT !.pc = "token", !.exchanged = TRUE, !.wrote = r.wrote,
                               !.user = r.user, !.code = ""]]
    /\ UNCHANGED <<now, sessions, issued, nStates, loginAt, loggedOut, last>>

\* AuthHandler.Callback: HandleCallback up to the read of the users table,
\* when callbacks run side by side
CallbackLookup(p, ghOK, lookupOK) ==
    /\ cb[p].pc = "handle"
    /\ LET r == HandleCallbackLookup(users, cb[p].code, ghOK, lookupOK)
       IN  cb' = [cb EXCEPT ![p] =
                IF r.err
                THEN [@ EXCEPT !.pc = "done", !.status = 500, !.exchanged = TRUE,
                               !.code = ""]
                ELSE [@ EXCEPT !.pc = "write", !.exchanged = TRUE,
                               !.existing = r.existing]]
    /\ UNCHANGED <<now, sessions, users, issued, nStates, loginAt, loggedOut, last>>

\* AuthHandler.Callback: the write of HandleCallback
CallbackWrite(p, writeOK) ==
    /\ cb[p].pc = "write"
    /\ LET r == HandleCallbackWrite(users, cb[p].code, cb[p].existing, writeOK)
       IN  /\ users' = r.users
           /\ cb' = [cb EXCEPT ![p] =
                IF r.err
                THEN [@ EXCEPT !.pc = "done", !.status = 500, !.code = "",
                               !.existing = NoUserLookup, !.conflict = r.conflict]
                ELSE [@ EXCEPT !.pc = "token", !.wrote = TRUE, !.user = r.user,
                               !.code = "", !.existing = NoUserLookup]]
    /\ UNCHANGED <<now, sessions, issued, nStates, loginAt, loggedOut, last>>

\* history: what the sign-ins did to the row of each GitHub account
NoHistory ==
    [created |-> <<>>, written |-> <<>>, answered |-> <<>>, codes |-> {}, succeeded |-> <<>>]

\* history: the write just made, and the row it created
RecordWrite(p) ==
    userHist' =
        IF cb'[p].pc # "token" THEN userHist
        ELSE LET u == cb'[p].user
             IN  [userHist EXCEPT
                    !.created = IF u.github_id \in DOMAIN @ THEN @
                                ELSE (u.github_id :> u) @@ @,
                    !.written = (u.github_id :> u) @@ @]

\* history: the sign-in just answered 200
RecordLogin(p) ==
    userHist' =
        IF cb'[p].status # 200 THEN userHist
        ELSE [userHist EXCEPT !.answered = (cb[p].user.github_id :> cb[p].user) @@ @]

\* GitHub exchanges an authorization code once: "exchange" stands for its
\* refusal of a code it has exchanged before
ExchangeOf(p) == IF cb[p].code \in userHist.codes THEN "exchange" ELSE "ok"

\* history: the code GitHub has just exchanged
RecordExchange(p) ==
    userHist' = IF cb'[p].pc # "token" THEN userHist
                ELSE [userHist EXCEPT !.codes = @ \cup {cb[p].code}]

\* history: how many callbacks carrying the state were answered 200
RecordState(p) ==
    userHist' =
        IF cb'[p].status # 200 THEN userHist
        ELSE LET s == cb[p].state
                 n == IF s \in DOMAIN userHist.succeeded THEN userHist.succeeded[s] ELSE 0
             IN  [userHist EXCEPT !.succeeded = (s :> n + 1) @@ @]

\* AuthHandler.Callback: GenerateJWT, DeleteOAuthState (a failure is only
\* logged) and the 200 answer carrying the token
CallbackFinish(p, randOK, dbOK) ==
    /\ cb[p].pc = "token"
    /\ Cardinality(issued) < MaxTokens
    /\ IF ~randOK
       THEN /\ cb' = [cb EXCEPT ![p] = [@ EXCEPT !.pc = "done", !.status = 500,
                                                   !.user = NoUser]]
            /\ UNCHANGED <<sessions, issued>>
       ELSE /\ issued' = issued \cup
                  {GenerateJWT(cb[p].user.id, cb[p].user.username, ServerSecret,
                               JWTLifetimeSec, <<Cardinality(issued) + 1>>, now)}
            /\ sessions' = IF dbOK THEN DeleteOAuthState(sessions, cb[p].state)
                           ELSE sessions
            /\ cb' = [cb EXCEPT ![p] =
                        [@ EXCEPT !.pc = "done", !.status = 200, !.issuedToken = TRUE,
                                  !.user = NoUser, !.state = <<>>]]
    /\ UNCHANGED <<now, users, nStates, loginAt, loggedOut, last>>

(* ------------------------- clock and cleanup --------------------------- *)
Tick ==
    /\ now < MaxTime
    /\ now' = now + 1
    /\ UNCHANGED <<sessions, users, issued, nStates, loginAt, loggedOut, last, cb>>

\* cleanup_expired_data(): the rows of the four tables whose expires_at lies
\* before NOW() are deleted, of generated_profiles only those not deployed
\* (every row of the model has a cache_key)
cleanup_expired_data(sess, profiles, lists, analyses, t) ==
    [sessions |-> CleanupSessions(sess, t),
     profiles |-> [k \in {k \in DOMAIN profiles :
                            ~(profiles[k].expires_at < t /\ ~profiles[k].deployed)}
                     |-> profiles[k]],
     lists |-> [k \in {k \in DOMAIN lists : ~(lists[k].expires_at < t)} |-> lists[k]],
     analyses |-> [k \in {k \in DOMAIN analyses : ~(analyses[k].expires_at < t)}
                     |-> analyses[k]]]

\* SessionRepository.CleanupExpiredSessions: SELECT cleanup_expired_data()
Cleanup ==
    /\ LET r == cleanup_expired_data(sessions, profileCache, listCache, analysisCache, now)
       IN  /\ sessions' = r.sessions
           /\ profileCache' = r.profiles
           /\ listCache' = r.lists
           /\ analysisCache' = r.analyses
    /\ UNCHANGED <<now, users, issued, nStates, loginAt, loggedOut, last, cb>>

\* the rows of a table that a cleanup at time t removes
Removed(table, after) == [k \in DOMAIN table \ DOMAIN after |-> table[k]]

\* a cleanup, and what it removed
CallCleanup ==
    /\ Cleanup
    /\ call' = [seen |-> TRUE, op |-> "cleanup_expired_data", at |-> now,
                sessions |-> Removed(sessions, sessions'),
                profiles |-> Removed(profileCache, profileCache')]
    /\ UNCHANGED <<ghVersion, generated>>

(* ------------------- WebSocket progress channel ------------------------ *)
\* make(chan ProgressUpdate, 10)
ProgressBufferSize == 10

NoUpdate == ""

sendCapacityOne(ch, stage) ==
    IF Len(ch) < 1
    THEN [ch |-> Append(ch, stage), enqueued |-> TRUE]
    ELSE [ch |-> ch, enqueued |-> FALSE]

\* send: select { case progressCh <- update: default: }
send(ch, stage) ==
    IF Len(ch) < ProgressBufferSize
    THEN [ch |-> Append(ch, stage), enqueued |-> TRUE]
    ELSE [ch |-> ch, enqueued |-> FALSE]

NoSend == [made |-> FALSE, stage |-> NoUpdate, lenBefore |-> 0, enqueued |-> FALSE]

InitWs ==
    /\ wsPc = "start"
    /\ progressCh = <<>>
    /\ chClosed = FALSE
    /\ readerPc = "none"
    /\ held = NoUpdate
    /\ written = <<>>
    /\ ctxDone = FALSE
    /\ genErr = FALSE
    /\ lastSend = NoSend

\* HandleProfileGeneration up to the start of the reader: the upgrade, the user
\* of the context and the request read from the socket; ok: none of them failed
WsOpen(ok) ==
    /\ wsPc = "start"
    /\ IF ok
       THEN wsPc' = "init" /\ readerPc' = "select"
       ELSE wsPc' = "end" /\ UNCHANGED readerPc
    /\ UNCHANGED <<progressCh, chClosed, held, written, ctxDone, genErr, lastSend>>

\* the stage a send of generateWithProgress carries, and the step after it
StageAt(pc) ==
    IF pc = "init" THEN "init"
    ELSE IF pc = "analyzing" THEN "analyzing"
    ELSE IF pc = "generating" THEN "generating"
    ELSE "finalizing"

AfterSend(pc) ==
    IF pc = "init" THEN "analyzing"
    ELSE IF pc = "analyzing" THEN "generating"
    ELSE IF pc = "generating" THEN "GenerateProfile"
    ELSE "close"

SendPcs == {"init", "analyzing", "generating", "finalizing"}

\* generateWithProgress: one of its four sends
WsSend ==
    /\ wsPc \in SendPcs
    /\ LET r == send(progressCh, StageAt(wsPc))
       IN  /\ progressCh' = r.ch
           /\ lastSend' = [made |-> TRUE, stage |-> StageAt(wsPc),
                           lenBefore |-> Len(progressCh), enqueued |-> r.enqueued]
    /\ wsPc' = AfterSend(wsPc)
    /\ UNCHANGED <<chClosed, readerPc, held, written, ctxDone, genErr>>

\* generateWithProgress: the call of GenerateProfile returns
WsGenerate(err) ==
    /\ wsPc = "GenerateProfile"
    /\ genErr' = err
    /\ wsPc' = IF err THEN "close" ELSE "finalizing"
    /\ UNCHANGED <<progressCh, chClosed, readerPc, held, written, ctxDone, lastSend>>

\* close(progressCh)
WsClose ==
    /\ wsPc = "close"
    /\ chClosed' = TRUE
    /\ wsPc' = "wait"
    /\ UNCHANGED <<progressCh, readerPc, held, written, ctxDone, genErr, lastSend>>

\* <-done, then the error or the final result is written and the handler returns
WsFinish ==
    /\ wsPc = "wait"
    /\ readerPc = "returned"
    /\ wsPc' = "end"
    /\ written' = Append(written, IF genErr THEN "error" ELSE "complete")
    /\ UNCHANGED <<progressCh, chClosed, readerPc, held, ctxDone, genErr, lastSend>>

\* the reader's select: case update, open := <-progressCh
ReaderReceive ==
    /\ readerPc = "select"
    /\ \/ /\ progressCh # <<>>
          /\ held' = Head(progressCh)
          /\ progressCh' = Tail(progressCh)
          /\ readerPc' = "WriteJSON"
       \/ /\ progressCh = <<>> /\ chClosed
          /\ readerPc' = "returned"
          /\ UNCHANGED <<progressCh, held>>
    /\ UNCHANGED <<wsPc, chClosed, written, ctxDone, genErr, lastSend>>

\* the reader's select: case <-ctx.Done()
ReaderCancelled ==
    /\ readerPc = "select"
    /\ ctxDone
    /\ readerPc' = "returned"
    /\ UNCHANGED <<wsPc, progressCh, chClosed, held, written, ctxDone, genErr, lastSend>>

\* ws.WriteJSON(update) returns, however long it took; on an error the reader returns
ReaderWrite(ok) ==
    /\ readerPc = "WriteJSON"
    /\ IF ok
       THEN written' = Append(written, held) /\ readerPc' = "select"
       ELSE UNCHANGED written /\ readerPc' = "returned"
    /\ held' = NoUpdate
    /\ UNCHANGED <<wsPc, progressCh, chClosed, ctxDone, genErr, lastSend>>

\* the client goes away: the request context is cancelled
CtxCancel ==
    /\ ~ctxDone
    /\ wsPc # "start"
    /\ ctxDone' = TRUE
    /\ UNCHANGED <<wsPc, progressCh, chClosed, readerPc, held, written, genErr, lastSend>>

(* ------------------- content assembly: badges -------------------------- *)
\* strings.ToLower of the technology names the model uses
ToLower(str) ==
    CASE str = "Go" -> "go"
      [] str = "Python" -> "python"
      [] str = "React" -> "react"
      [] str = "PostgreSQL" -> "postgresql"
      [] str = "COBOL" -> "cobol"
      [] str = "Angular" -> "angular"
      [] str = "NestJS" -> "nestjs"
      [] str = "Docker" -> "docker"
      [] str = "@Angular/Core" -> "@angular/core"
      [] OTHER -> str

\* buildBadgeCatalog: these entries and aliases of it
CatalogEntries ==
    << [Name |-> "Go", Color |-> "00ADD8"],
       [Name |-> "Python", Color |-> "3776AB"],
       [Name |-> "React", Color |-> "61DAFB"],
       [Name |-> "PostgreSQL", Color |-> "316192"],
       [Name |-> "Angular", Color |-> "DD0031"],
       [Name |-> "NestJS", Color |-> "E0234E"],
       [Name |-> "Docker", Color |-> "2496ED"] >>

CatalogAliases ==
    [a \in {"golang", "postgres", "nestjs", "@nestjs/core"} |->
       CASE a = "golang" -> "Go"
         [] a = "postgres" -> "PostgreSQL"
         [] OTHER -> "NestJS"]

Range(f) == {f[x] : x \in DOMAIN f}

buildBadgeCatalog ==
    LET byName == [k \in {ToLower(e.Name) : e \in Range(CatalogEntries)} |->
                     CHOOSE e \in Range(CatalogEntries) : ToLower(e.Name) = k]
        known  == {al \in DOMAIN CatalogAliases : ToLower(CatalogAliases[al]) \in DOMAIN byName}
    IN  [k \in DOMAIN byName \cup {ToLower(al) : al \in known} |->
           IF k \in DOMAIN byName THEN byName[k]
           ELSE byName[ToLower(CatalogAliases[CHOOSE al \in known : ToLower(al) = k])]]

\* strings.HasPrefix(key, "@") on the lowercased names the model uses
HasAtPrefix(key) == key \in {"@angular/core", "@nestjs/core", "@types/react"}

\* strings.SplitN(key[1:], "/", 2)[0] on those names
BeforeSlash(key) ==
    CASE key = "@angular/core" -> "angular"
      [] key = "@nestjs/core" -> "nestjs"
      [] key = "@types/react" -> "types"
      [] OTHER -> key

\* the key a dependency contributes: lowercased, a scoped npm name cut to
\* its scope
DependencyKey(dep) ==
    LET key == ToLower(dep)
    IN  IF HasAtPrefix(key) THEN BeforeSlash(key) ELSE key

\* every sequence that lists each element of S once: the orders in which a
\* range over a Go map with the keys S can run
Orders(S) ==
    {q \in [1..Cardinality(S) -> S] : \A i, j \in DOMAIN q : q[i] = q[j] => i = j}

\* the keys passed to add: emphasized skills, every language of every project,
\* every dependency, the skills the LLM extracted
KeysAdded(projects, llmSkills, emphasizedSkills) ==
    Range(emphasizedSkills)
      \cup UNION {DOMAIN projects[i].Languages : i \in DOMAIN projects}
      \cup UNION {{DependencyKey(d) : d \in Range(projects[i].Dependencies)} :
                    i \in DOMAIN projects}
      \cup Range(llmSkills)

\* badgeMap when it is keyed by the key that matched and not by the name of
\* the badge
BadgeMapByKey(projects, llmSkills, emphasizedSkills) ==
    LET catalog == buildBadgeCatalog
        hits == {ToLower(k) : k \in KeysAdded(projects, llmSkills, emphasizedSkills)}
                  \cap DOMAIN catalog
    IN  [k \in hits |-> catalog[k]]

\* badgeMap after the four passes: badge name -> badge; a name already there
\* is not replaced, and a key has one badge, so the passes' order does not show
BadgeMap(projects, llmSkills, emphasizedSkills) ==
    LET catalog == buildBadgeCatalog
        hits == {ToLower(k) : k \in KeysAdded(projects, llmSkills, emphasizedSkills)}
                  \cap DOMAIN catalog
    IN  [n \in {catalog[k].Name : k \in hits} |->
           catalog[CHOOSE k \in hits : catalog[k].Name = n]]

\* buildBadgesFromProjectData; order: the order in which the final
\* "for _, b := range badgeMap" visits the map
buildBadgesFromProjectData(projects, llmSkills, emphasizedSkills, order) ==
    LET badgeMap == BadgeMap(projects, llmSkills, emphasizedSkills)
    IN  [i \in DOMAIN order |-> badgeMap[order[i]]]

\* the orders that range can take for this input
BadgeOrders(projects, llmSkills, emphasizedSkills) ==
    Orders(DOMAIN BadgeMap(projects, llmSkills, emphasizedSkills))

Min(a, b) == IF a < b THEN a ELSE b

RECURSIVE SumBytes(_, _, _)
SumBytes(projects, lang, i) ==
    IF i = 0 THEN 0
    ELSE SumBytes(projects, lang, i - 1)
           + (IF lang \in DOMAIN projects[i].Languages
              THEN projects[i].Languages[lang] ELSE 0)

\* collectTopLanguages: totals per language
LanguageTotals(projects) ==
    [lang \in UNION {DOMAIN projects[i].Languages : i \in DOMAIN projects} |->
       SumBytes(projects, lang, Len(projects))]

\* the orders sort.Slice can leave after the range over totals: descending
\* by bytes, languages with equal bytes in either order
TopLanguageOrders(projects) ==
    LET totals == LanguageTotals(projects)
    IN  {q \in Orders(DOMAIN totals) :
           \A i, j \in DOMAIN q : i < j => totals[q[i]] >= totals[q[j]]}

\* collectTopLanguages(projects, n), sorted being the order after sort.Slice
collectTopLanguages(sorted, n) == SubSeq(sorted, 1, Min(n, Len(sorted)))

(* ------------------- content assembly: Markdown ------------------------ *)
\* A document is the sequence of the strings written to the builder, a
\* formatted string being the tuple of its format's name and its arguments.
\* FullName is held as its parts between slashes
NoRepository == [Name |-> "", FullName |-> <<>>, HTMLURL |-> "", Description |-> "",
                 Stars |-> 0, Forks |-> 0, Topics |-> <<>>]

\* strconv of the counts the model uses
Itoa(n) ==
    CASE n = 0 -> "0" [] n = 1 -> "1" [] n = 2 -> "2" [] n = 3 -> "3"
      [] n = 4 -> "4" [] OTHER -> "5"

\* encode of buildTypingLines: spaces trimmed, inner spaces to "+"
encode(str) ==
    CASE str = "Backend Engineer" -> "Backend+Engineer"
      [] OTHER -> str

\* strings.Join as the tuple of the parts with the separator between them
RECURSIVE Join(_, _)
Join(parts, sep) ==
    IF Len(parts) = 0 THEN <<>>
    ELSE IF Len(parts) = 1 THEN <<parts[1]>>
    ELSE <<parts[1], sep>> \o Join(Tail(parts), sep)

\* collectAllTopics: the topics of all repositories, each once, first seen first
RECURSIVE collectAllTopics(_)
collectAllTopics(projects) ==
    IF Len(projects) = 0 THEN <<>>
    ELSE LET before == collectAllTopics(SubSeq(projects, 1, Len(projects) - 1))
             p == projects[Len(projects)]
             new == SelectSeq(p.Repository.Topics, LAMBDA t : t \notin Range(before))
         IN  IF p.Repository = NoRepository THEN before ELSE before \o new

portfolioURL(config, user) ==
    IF config.ContactPrefs.PersonalWebsite # ""
    THEN config.ContactPrefs.PersonalWebsite ELSE user.Blog

\* toLogoSlug for the badge names of the model: none is special, none has a
\* space, dot, plus or sharp
toLogoSlug(name) == ToLower(name)

buildTypingLines(config, topLangs, topics) ==
    LET role  == IF config.TargetRole # "" THEN << <<encode(config.TargetRole)>> >> ELSE <<>>
        langs == IF Len(topLangs) = 0 THEN <<>>
                 ELSE IF Len(topLangs) = 1 THEN << <<topLangs[1], "+Developer">> >>
                 ELSE << <<encode(topLangs[1]), " & ", encode(topLangs[2]), " Developer">> >>
        skill == IF Len(config.SkillsEmphasis) > 0
                 THEN << <<"Expert+in+", encode(config.SkillsEmphasis[1])>> >> ELSE <<>>
        lines == role \o langs \o skill
        more  == SubSeq(topics, 1, Min(5 - Len(lines), Len(topics)))
        all   == lines \o [i \in DOMAIN more |-> <<encode(more[i])>>]
    IN  IF Len(all) = 0 THEN << <<"Software+Developer">> >> ELSE all

\* the lines of one featured project; sorted: the order collectTopLanguages
\* reached for this project's languages
ProjectLines(username, req, summaries, i, sorted) ==
    LET sum   == summaries[i]
        repo  == sum.Repository
        \* strings.Split(repo.FullName, "/")[0] when the name has a slash
        owner == IF Len(repo.FullName) > 1 THEN repo.FullName[1] ELSE username
        tech  == IF Len(sum.TechStack) > 0
                 THEN << <<"**Tech:** ">> >>
                        \o [k \in DOMAIN sum.TechStack |-> <<"tech", sum.TechStack[k]>>]
                        \o << <<"\n\n">> >>
                 ELSE <<>>
        analysis == req.Projects[i]
        topProjLangs == collectTopLanguages(sorted, 3)
        stats ==
            (IF repo.Stars > 0 THEN << <<"%d stars", Itoa(repo.Stars)>> >> ELSE <<>>)
            \o (IF repo.Forks > 0 THEN << <<"%d forks", Itoa(repo.Forks)>> >> ELSE <<>>)
            \o (IF i <= Len(req.Projects)
                THEN (IF analysis.CommitCount > 0
                      THEN << <<"%d commits", Itoa(analysis.CommitCount)>> >> ELSE <<>>)
                     \o (IF analysis.ContributorCount > 0
                         THEN << <<"%d contributors", Itoa(analysis.ContributorCount)>> >>
                         ELSE <<>>)
                     \o (IF Len(topProjLangs) > 0
                         THEN << <<"langs">> \o Join(topProjLangs, " / ") >> ELSE <<>>)
                ELSE <<>>)
            \o (IF Len(repo.Topics) > 0
                THEN << <<"topics">>
                          \o Join(SubSeq(repo.Topics, 1, Min(5, Len(repo.Topics))), ", ") >>
                ELSE <<>>)
    IN  IF repo = NoRepository THEN <<>>
        ELSE << <<"### [%s](%s)", repo.Name, repo.HTMLURL>> >>
             \o (IF repo.Description # "" THEN << <<"> %s", repo.Description>> >> ELSE <<>>)
             \o << <<"Repo Card", owner, repo.Name, repo.HTMLURL>> >>
             \o (IF sum.Summary # "" THEN << <<sum.Summary, "\n\n">> >> ELSE <<>>)
             \o tech
             \o (IF Len(stats) > 0
                 THEN << <<"stats">> >> \o stats \o << <<"\n\n">> >> ELSE <<>>)
             \o (IF i < Len(summaries) THEN << <<"---\n\n">> >> ELSE <<>>)

RECURSIVE FeaturedProjects(_, _, _, _, _)
FeaturedProjects(username, req, summaries, projSorted, n) ==
    IF n = 0 THEN <<>>
    ELSE FeaturedProjects(username, req, summaries, projSorted, n - 1)
           \o ProjectLines(username, req, summaries, n, projSorted[n])

\* organizeBadgesByCategory for the names of the model
CategoryOf(name) ==
    IF name \in {"Go", "Python"} THEN "Languages"
    ELSE IF name \in {"React", "Angular", "NestJS"} THEN "Frameworks & Libraries"
    ELSE IF name = "PostgreSQL" THEN "Databases"
    ELSE "Tools & Platforms"

CategoryOrder == <<"Languages", "Frameworks & Libraries", "Databases", "Tools & Platforms">>

\* the four buckets as filled by the loop, the empty ones not dropped
organizeKeepingEmpty(badges) ==
    [cat \in Range(CategoryOrder) |-> SelectSeq(badges, LAMBDA b : CategoryOf(b.Name) = cat)]

\* the buckets that are not empty, each in the order of the badge slice
organizeBadgesByCategory(badges) ==
    LET used == {CategoryOf(badges[i].Name) : i \in DOMAIN badges}
    IN  [cat \in used |-> SelectSeq(badges, LAMBDA b : CategoryOf(b.Name) = cat)]

RECURSIVE TechStackLines(_, _)
TechStackLines(categories, n) ==
    IF n = 0 THEN <<>>
    ELSE LET cat == CategoryOrder[n]
             catBadges == categories[cat]
         IN  TechStackLines(categories, n - 1)
               \o (IF cat \notin DOMAIN categories THEN <<>>
                   ELSE << <<"**%s**", cat>> >>
                          \o [i \in DOMAIN catBadges |->
                                <<"badge", catBadges[i].Name, catBadges[i].Name,
                                  catBadges[i].Color, toLogoSlug(catBadges[i].Name)>>]
                          \o << <<"\n\n">> >>)

\* buildMarkdown; topSorted and projSorted[i]: the orders its calls of
\* collectTopLanguages reached, for all projects and for project i
buildMarkdown(user, req, pitch, summaries, badges, config, topSorted, projSorted) ==
    LET username == user.Username
        topLangs == collectTopLanguages(topSorted, 5)
        allTopics == collectAllTopics(req.Projects)
        siteURL == portfolioURL(config, user)
        contactEmail == IF config.ContactPrefs.Email = "" THEN user.Email
                        ELSE config.ContactPrefs.Email
        meta == (IF user.Location # "" THEN <<user.Location>> ELSE <<>>)
                \o (IF user.Company # "" THEN <<user.Company>> ELSE <<>>)
        hero ==
            << <<"<div align=center>">> >>
            \o (IF user.AvatarURL # "" THEN << <<"avatar", user.AvatarURL, username>> >> ELSE <<>>)
            \o << <<"# Hi, I'm @%s", username>> >>
            \o (IF user.Bio # "" THEN << <<"**%s**", user.Bio>> >> ELSE <<>>)
            \o (IF Len(meta) > 0 THEN << Join(meta, " &nbsp;.&nbsp; ") >> ELSE <<>>)
            \o << <<"Typing SVG">> >> \o buildTypingLines(config, topLangs, allTopics)
            \o << <<"Profile Views", username>>, <<"Followers", username, username>>,
                  <<"Stars", username, username>>, <<"</div>">> >>
        names == SelectSeq(SubSeq(summaries, 1, Min(2, Len(summaries))),
                           LAMBDA sm : sm.Repository # NoRepository)
        about ==
            << <<"## About Me">>, <<pitch>> >>
            \o (IF config.TargetRole # ""
                THEN << <<"Growing as a **%s**", config.TargetRole>> >> ELSE <<>>)
            \o (IF Len(names) > 0
                THEN << <<"Currently building">>
                          \o Join([i \in DOMAIN names |-> names[i].Repository.Name], " & ") >>
                ELSE <<>>)
            \o (IF Len(config.SkillsEmphasis) > 0
                THEN << <<"Deepening expertise in">>
                          \o Join(SubSeq(config.SkillsEmphasis, 1,
                                         Min(2, Len(config.SkillsEmphasis))), " & ") >>
                ELSE IF Len(topLangs) > 0
                THEN << <<"Deepening expertise in", topLangs[1]>> >>
                ELSE <<>>)
            \o (IF Len(topLangs) > 0
                THEN << <<"Ask me about">>
                          \o Join(SubSeq(topLangs, 1, Min(3, Len(topLangs))), ", ") >>
                ELSE <<>>)
            \o (IF contactEmail # "" THEN << <<"Reach me at **%s**", contactEmail>> >> ELSE <<>>)
        connect ==
            << <<"## Connect">> >>
            \o (IF config.ContactPrefs.LinkedIn # ""
                THEN << <<"LinkedIn", config.ContactPrefs.LinkedIn>> >> ELSE <<>>)
            \o (IF config.ContactPrefs.Twitter # ""
                THEN << <<"Twitter/X", config.ContactPrefs.Twitter>> >> ELSE <<>>)
            \o (IF contactEmail # "" THEN << <<"Email", contactEmail>> >> ELSE <<>>)
            \o (IF siteURL # "" THEN << <<"Website", siteURL>> >> ELSE <<>>)
            \o << <<"GitHub", username>>, <<"</div>">> >>
        techStack ==
            IF Len(badges) > 0
            THEN << <<"## Tech Stack">> >>
                   \o TechStackLines(organizeBadgesByCategory(badges), Len(CategoryOrder))
                   \o << <<"</div>">> >>
            ELSE <<>>
        stats == << <<"## GitHub Stats">>, <<"stats", username, username>>,
                    <<"Top langs", username>>, <<"Streak", username>>,
                    <<"Trophies", username>>, <<"</div>">> >>
        featured ==
            IF Len(summaries) > 0
            THEN << <<"## Featured Projects">> >>
                   \o FeaturedProjects(username, req, summaries, projSorted, Len(summaries))
            ELSE <<>>
        tail == << <<"## Contribution Activity">>, <<"Activity Graph", username>>,
                   <<"---">>, <<"Generated with GitRight", username, username>>,
                   <<"</div>">> >>
    IN  hero \o about \o connect \o techStack \o stats \o featured \o tail

(* ------------------- content assembly: two runs ------------------------ *)
NoCategories == [cat \in {} |-> <<>>]

NoContactPrefs == [Email |-> "", LinkedIn |-> "", Twitter |-> "", PersonalWebsite |-> ""]

PipeUsers ==
    { [Username |-> "alice", Bio |-> "", Location |-> "", Company |-> "",
       AvatarURL |-> "", Blog |-> "", Email |-> ""],
      [Username |-> "alice", Bio |-> "bio", Location |-> "Oslo", Company |-> "Acme",
       AvatarURL |-> "avatar.png", Blog |-> "alice.dev", Email |-> "a@x.io"] }

ApiRepository ==
    [Name |-> "api", FullName |-> <<"alice", "api">>, HTMLURL |-> "github.com/alice/api",
     Description |-> "An API", Stars |-> 2, Forks |-> 0, Topics |-> <<"cli">>]

NoLanguages == [l \in {} |-> 0]

\* the analyses a request of the model carries: no language and a
\* dependency, one language, two languages of different and of equal size
PipeProject(langs, deps) ==
    [Repository |-> ApiRepository, Languages |-> langs, Dependencies |-> deps,
     CommitCount |-> 3, ContributorCount |-> 1]

PipeProjects ==
    { PipeProject(NoLanguages, <<"React">>),
      PipeProject([l \in {"Go"} |-> 2], <<>>),
      PipeProject([l \in {"Go", "Python"} |-> IF l = "Go" THEN 2 ELSE 1], <<>>),
      PipeProject([l \in {"Go", "Python"} |-> 1], <<>>) }

PipeEmphasized == {<<>>, <<"golang">>, <<"COBOL", "Go">>}

PipeLLMSkills == {<<>>, <<"postgres">>}

\* the inputs of buildBadgesFromProjectData alone: scoped and plain
\* dependencies, names and aliases in either case, names out of the catalog
BadgeProjects ==
    { PipeProject(NoLanguages, <<>>),
      PipeProject([l \in {"Go"} |-> 2], <<"@Angular/Core", "@types/react">>),
      PipeProject([l \in {"Python"} |-> 1], <<"@nestjs/core", "React">>),
      PipeProject(NoLanguages, <<"postgres", "PostgreSQL">>) }

BadgeEmphasized == {<<>>, <<"golang">>, <<"COBOL", "Go">>, <<"@nestjs/core", "angular">>}

BadgeLLMSkills == {<<>>, <<"postgres">>, <<"NestJS", "python">>}

NoInput == [given |-> FALSE]

Runs == {1, 2}

InitPipe ==
    /\ pipeIn = NoInput
    /\ runs = [r \in Runs |-> [pc |-> "wait", badges |-> <<>>, markdown |-> <<>>,
                              categories |-> NoCategories]]

\* GenerateProfile has the user, the request and the response of the LLM
PipeInput(user, project, emphasized, llmSkills) ==
    /\ ~pipeIn.given
    /\ pipeIn' = [given |-> TRUE,
                  user |-> user,
                  req |-> [TargetRole |-> "Backend Engineer", ToneOfVoice |-> "casual",
                           EmphasizedSkills |-> emphasized, Projects |-> <<project>>,
                           ContactPrefs |-> NoContactPrefs],
                  resp |-> [ProfilePitch |-> "pitch",
                            ProjectSummaries |-> <<[Summary |-> "summary", Skills |-> <<"Go">>]>>,
                            ExtractedSkills |-> llmSkills]]
    /\ runs' = [runs EXCEPT ![1].pc = "badges"]

\* the summaries, with the API key of the request copied into their text
SummariesWithAPIKey(req, resp) ==
    [i \in 1..Min(Len(resp.ProjectSummaries), Len(req.Projects)) |->
       [Repository |-> req.Projects[i].Repository,
        Summary |-> req.UserAPIKey,
        TechStack |-> resp.ProjectSummaries[i].Skills]]

\* GenerateProfile: the summaries, one per project summary of the response
\* while the request has a project at that place
Summaries(req, resp) ==
    [i \in 1..Min(Len(resp.ProjectSummaries), Len(req.Projects)) |->
       [Repository |-> req.Projects[i].Repository,
        Summary |-> resp.ProjectSummaries[i].Summary,
        TechStack |-> resp.ProjectSummaries[i].Skills]]

\* the badge slices of at most MaxBadges badges: catalog badges of every
\* group, a badge more than once, and a badge no catalog entry names
CategoryBadges == Range(CatalogEntries) \cup {[Name |-> "COBOL", Color |-> "000000"]}

BadgeSlices == UNION {[1..n -> CategoryBadges] : n \in 0..MaxBadges}

\* buildMarkdown is called with a badge slice
OrganizeInput(r, badges) ==
    /\ runs[r].pc = "wait"
    /\ runs' = [runs EXCEPT ![r].pc = "markdown", ![r].badges = badges]
    /\ UNCHANGED pipeIn

\* buildMarkdown: categories := s.organizeBadgesByCategory(badges)
Organize(r) ==
    /\ runs[r].pc = "markdown"
    /\ runs' = [runs EXCEPT ![r].pc = "organized",
                            ![r].categories = organizeBadgesByCategory(runs[r].badges)]
    /\ UNCHANGED pipeIn

\* GenerateProfile: badges := s.buildBadgesFromProjectData(...)
PipeBadges(r, order) ==
    /\ runs[r].pc = "badges"
    /\ runs' = [runs EXCEPT ![r].pc = "markdown",
                            ![r].badges = buildBadgesFromProjectData(
                                pipeIn.req.Projects, pipeIn.resp.ExtractedSkills,
                                pipeIn.req.EmphasizedSkills, order)]
    /\ UNCHANGED pipeIn

\* GenerateProfile: markdown := s.buildMarkdown(...)
PipeMarkdown(r, topSorted, projSorted) ==
    /\ runs[r].pc = "markdown"
    /\ LET req == pipeIn.req
           config == [TargetRole |-> req.TargetRole, SkillsEmphasis |-> req.EmphasizedSkills,
                      ToneOfVoice |-> req.ToneOfVoice, ContactPrefs |-> req.ContactPrefs]
       IN  runs' = [runs EXCEPT ![r].pc = "done",
                                ![r].markdown = buildMarkdown(
                                    pipeIn.user, req, pipeIn.resp.ProfilePitch,
                                    Summaries(req, pipeIn.resp), runs[r].badges, config,
                                    topSorted, <<projSorted>>)]
    /\ UNCHANGED pipeIn

\* the same call is made again once the run before has returned
PipeAgain(r) ==
    /\ r - 1 \in Runs
    /\ runs[r - 1].pc = "done"
    /\ runs[r].pc = "wait"
    /\ runs' = [runs EXCEPT ![r].pc = "badges"]
    /\ UNCHANGED pipeIn

(* ------------------- caches: repository layer -------------------------- *)
NoRows == [k \in {} |-> 0]

\* what GitHub lists for the user at a version of its data: a public and a
\* private repository
GitHubRepos(version) ==
    << [ID |-> 1, FullName |-> <<"alice", "api">>, Private |-> FALSE, Stars |-> version],
       [ID |-> 2, FullName |-> <<"alice", "vault">>, Private |-> TRUE, Stars |-> 0] >>

\* GetRepositoryList: the row of the key if it has not expired; nil without error
\* when there is none
GetRepositoryListNoExpiry(cache, userID, includePrivate, t, dbOK) ==
    LET key == <<userID, includePrivate>>
    IN  IF ~dbOK THEN [err |-> TRUE, found |-> FALSE, repos |-> <<>>]
        ELSE IF key \in DOMAIN cache
        THEN [err |-> FALSE, found |-> TRUE, repos |-> cache[key].repositories]
        ELSE [err |-> FALSE, found |-> FALSE, repos |-> <<>>]

GetRepositoryList(cache, userID, includePrivate, t, dbOK) ==
    LET key == <<userID, includePrivate>>
    IN  IF ~dbOK THEN [err |-> TRUE, found |-> FALSE, repos |-> <<>>]
        ELSE IF key \in DOMAIN cache /\ cache[key].expires_at > t
        THEN [err |-> FALSE, found |-> TRUE, repos |-> cache[key].repositories]
        ELSE [err |-> FALSE, found |-> FALSE, repos |-> <<>>]

\* INSERT ... ON CONFLICT DO UPDATE: the row of a key is inserted or replaced
Upsert(table, key, row) ==
    [k \in DOMAIN table \cup {key} |-> IF k = key THEN row ELSE table[k]]

\* SetRepositoryList; user_id references users(id)
SetRepositoryList(cache, userIDs, userID, includePrivate, repos, t, dbOK) ==
    IF ~dbOK \/ userID \notin userIDs
    THEN [err |-> TRUE, cache |-> cache]
    ELSE [err |-> FALSE,
          cache |-> Upsert(cache, <<userID, includePrivate>>,
                           [repositories |-> repos, cached_at |-> t,
                            expires_at |-> t + RepositoryListTTL])]

\* GetRepositoryAnalysis: of the analysis only these five columns come back
GetRepositoryAnalysis(cache, githubID, t, dbOK) ==
    IF ~dbOK THEN [err |-> TRUE, found |-> FALSE, analysis |-> <<>>]
    ELSE IF githubID \in DOMAIN cache /\ cache[githubID].expires_at > t
    THEN [err |-> FALSE, found |-> TRUE,
          analysis |-> << [Repository |-> NoRepository, Files |-> <<>>,
                           Languages |-> cache[githubID].languages,
                           Dependencies |-> cache[githubID].dependencies,
                           CommitCount |-> cache[githubID].commit_count,
                           ContributorCount |-> cache[githubID].contributor_count] >>]
    ELSE [err |-> FALSE, found |-> FALSE, analysis |-> <<>>]

SetRepositoryAnalysis(cache, githubID, fullName, analysis, t, dbOK) ==
    IF ~dbOK THEN [err |-> TRUE, cache |-> cache]
    ELSE [err |-> FALSE,
          cache |-> Upsert(cache, githubID,
                           [full_name |-> fullName, languages |-> analysis.Languages,
                            dependencies |-> analysis.Dependencies,
                            commit_count |-> analysis.CommitCount,
                            contributor_count |-> analysis.ContributorCount,
                            analyzed_at |-> t, expires_at |-> t + RepositoryAnalysisTTL])]

\* profile_configs: no statement of the repository inserts a row into it
ProfileConfigIDs == {}

\* ProfileCacheRepository.Get
ProfileCacheGet(cache, cacheKey, t, dbOK) ==
    IF ~dbOK THEN [err |-> TRUE, found |-> FALSE, response |-> <<>>]
    ELSE IF cacheKey \in DOMAIN cache /\ cache[cacheKey].expires_at > t
    THEN [err |-> FALSE, found |-> TRUE, response |-> <<cache[cacheKey].content>>]
    ELSE [err |-> FALSE, found |-> FALSE, response |-> <<>>]

\* ProfileCacheRepository.Set: a new row must satisfy the foreign keys of
\* generated_profiles (user_id, config_id); on a conflict of cache_key only
\* content, markdown_preview, expires_at and last_accessed_at are updated
ProfileCacheSet(cache, userIDs, userID, configID, cacheKey, response, ttl, t, dbOK) ==
    IF ~dbOK THEN [err |-> TRUE, cache |-> cache]
    ELSE IF cacheKey \in DOMAIN cache
    THEN [err |-> FALSE,
          cache |-> [cache EXCEPT ![cacheKey].content = response,
                                  ![cacheKey].expires_at = t + ttl,
                                  ![cacheKey].last_accessed_at = t]]
    ELSE IF userID \notin userIDs \/ configID \notin ProfileConfigIDs
    THEN [err |-> TRUE, cache |-> cache]
    ELSE [err |-> FALSE,
          cache |-> Upsert(cache, cacheKey,
                           [user_id |-> userID, config_id |-> configID,
                            content |-> response, expires_at |-> t + ttl,
                            created_at |-> t, last_accessed_at |-> t,
                            deployed |-> FALSE])]

\* GetCacheKey: "profile:v3:%s:%s:%s:%d"
GetCacheKey(username, targetRole, toneOfVoice, projectCount) ==
    <<"profile:v3", username, targetRole, toneOfVoice, Itoa(projectCount)>>

(* ------------------- caches: services ---------------------------------- *)
UserIDs(usrs) == {u.id : u \in usrs}

\* ListUserRepositories with a failing cache write turned into an error
ListUserRepositoriesStrict(cache, userIDs, userID, includePrivate, t, version, readOK, ghOK, writeOK) ==
    LET cached == GetRepositoryList(cache, userID, includePrivate, t, readOK)
        repos == SelectSeq(GitHubRepos(version), LAMBDA gr : includePrivate \/ ~gr.Private)
        set == SetRepositoryList(cache, userIDs, userID, includePrivate, repos, t, writeOK)
    IN  IF ~cached.err /\ cached.found
        THEN [err |-> FALSE, repos |-> cached.repos, cache |-> cache,
              hit |-> TRUE, fetched |-> FALSE, writeFailed |-> FALSE]
        ELSE IF ~ghOK
        THEN [err |-> TRUE, repos |-> <<>>, cache |-> cache,
              hit |-> FALSE, fetched |-> TRUE, writeFailed |-> FALSE]
        ELSE [err |-> set.err, repos |-> IF set.err THEN <<>> ELSE repos,
              cache |-> set.cache,
              hit |-> FALSE, fetched |-> TRUE, writeFailed |-> set.err]

\* GitHubService.ListUserRepositories
ListUserRepositories(cache, userIDs, userID, includePrivate, t, version, readOK, ghOK, writeOK) ==
    LET cached == GetRepositoryList(cache, userID, includePrivate, t, readOK)
        repos == SelectSeq(GitHubRepos(version), LAMBDA gr : includePrivate \/ ~gr.Private)
        set == SetRepositoryList(cache, userIDs, userID, includePrivate, repos, t, writeOK)
    IN  IF ~cached.err /\ cached.found
        THEN [err |-> FALSE, repos |-> cached.repos, cache |-> cache,
              hit |-> TRUE, fetched |-> FALSE, writeFailed |-> FALSE]
        ELSE IF ~ghOK
        THEN [err |-> TRUE, repos |-> <<>>, cache |-> cache,
              hit |-> FALSE, fetched |-> TRUE, writeFailed |-> FALSE]
        ELSE [err |-> FALSE, repos |-> repos, cache |-> set.cache,
              hit |-> FALSE, fetched |-> TRUE, writeFailed |-> set.err]

\* githubClient.GetRepository: the ID of the repository, 0 when GitHub has
\* none of that owner and name
GitHubIDOf(owner, repo) ==
    IF owner = "alice" /\ repo = "api" THEN 1
    ELSE IF owner = "alice" /\ repo = "vault" THEN 2
    ELSE 0

\* analyzer.AnalyzeRepository at a version of GitHub's data
AnalysisOf(owner, repo, version) ==
    [Repository |-> [ApiRepository EXCEPT !.Name = repo, !.FullName = <<owner, repo>>],
     Files |-> <<"main.go">>,
     Languages |-> [l \in {"Go"} |-> version + 1],
     Dependencies |-> <<>>,
     CommitCount |-> version + 1, ContributorCount |-> 1]

\* GitHubService.AnalyzeRepository; infoOK, readOK, analyzeOK, writeOK: the
\* call of GitHub, the cache read, the analysis and the cache write succeed
AnalyzeRepository(cache, owner, repo, t, version, infoOK, readOK, analyzeOK, writeOK) ==
    LET githubID == GitHubIDOf(owner, repo)
        cached == GetRepositoryAnalysis(cache, githubID, t, readOK)
        analysis == AnalysisOf(owner, repo, version)
        set == SetRepositoryAnalysis(cache, githubID, <<owner, repo>>, analysis, t, writeOK)
    IN  IF ~infoOK \/ githubID = 0
        THEN [err |-> TRUE, analysis |-> <<>>, cache |-> cache,
              hit |-> FALSE, fetched |-> FALSE, writeFailed |-> FALSE]
        ELSE IF ~cached.err /\ cached.found
        THEN [err |-> FALSE, analysis |-> cached.analysis, cache |-> cache,
              hit |-> TRUE, fetched |-> FALSE, writeFailed |-> FALSE]
        ELSE IF ~analyzeOK
        THEN [err |-> TRUE, analysis |-> <<>>, cache |-> cache,
              hit |-> FALSE, fetched |-> TRUE, writeFailed |-> FALSE]
        ELSE [err |-> FALSE, analysis |-> <<analysis>>, cache |-> set.cache,
              hit |-> FALSE, fetched |-> TRUE, writeFailed |-> set.err]

\* the request of GenerateProfile the model makes: n projects without
\* languages or dependencies, no emphasized skills
ProfileRequest(apiKey, targetRole, n) ==
    [UserAPIKey |-> apiKey, TargetRole |-> targetRole, ToneOfVoice |-> "casual",
     EmphasizedSkills |-> <<>>,
     Projects |-> [i \in 1..n |-> PipeProject(NoLanguages, <<>>)],
     ContactPrefs |-> NoContactPrefs]

\* the user record as the content assembly reads it
ProfileUser(u) ==
    [Username |-> u.username, Bio |-> "", Location |-> "", Company |-> "",
     AvatarURL |-> "", Blog |-> "", Email |-> ""]

\* GenerateBatchedProfile: the answer of the LLM, which differs from one
\* moment to the next
BatchResponse(req, t) ==
    [ProfilePitch |-> Itoa(t),
     ProjectSummaries |-> [i \in DOMAIN req.Projects |->
                             [Summary |-> "summary", Skills |-> <<>>]],
     ExtractedSkills |-> <<>>]

\* ProfileService.GenerateProfile
GenerateProfile(cache, usrs, user, req, t, readOK, llmOK, writeOK) ==
    LET cacheKey == GetCacheKey(user.username, req.TargetRole, req.ToneOfVoice,
                                Len(req.Projects))
        cached == ProfileCacheGet(cache, cacheKey, t, readOK)
        batchResp == BatchResponse(req, t)
        config == [TargetRole |-> req.TargetRole, SkillsEmphasis |-> req.EmphasizedSkills,
                   ToneOfVoice |-> req.ToneOfVoice, ContactPrefs |-> req.ContactPrefs]
        badges == buildBadgesFromProjectData(req.Projects, batchResp.ExtractedSkills,
                                             req.EmphasizedSkills, <<>>)
        markdown == buildMarkdown(ProfileUser(user), req, batchResp.ProfilePitch,
                                  Summaries(req, batchResp), badges, config,
                                  <<>>, [i \in DOMAIN req.Projects |-> <<>>])
        response == [Markdown |-> markdown, ExtractedSkills |-> batchResp.ExtractedSkills,
                     SuggestedBadges |-> badges]
        set == ProfileCacheSet(cache, UserIDs(usrs), user.id, 0, cacheKey, response,
                               ProfileTTL, t, writeOK)
        none == [err |-> TRUE, response |-> <<>>, cache |-> cache, key |-> cacheKey,
                 hit |-> FALSE, fetched |-> FALSE, writeFailed |-> FALSE]
    IN  IF req.UserAPIKey = "" \/ Len(req.Projects) = 0 THEN none
        ELSE IF ~cached.err /\ cached.found
        THEN [none EXCEPT !.err = FALSE, !.response = cached.response, !.hit = TRUE]
        ELSE IF ~llmOK THEN [none EXCEPT !.fetched = TRUE]
        ELSE [err |-> FALSE, response |-> <<response>>, cache |-> set.cache,
              key |-> cacheKey, hit |-> FALSE, fetched |-> TRUE, writeFailed |-> set.err]

(* ------------------- caches: calls ------------------------------------- *)
NoCall == [seen |-> FALSE]

InitCache ==
    /\ listCache = NoRows
    /\ analysisCache = NoRows
    /\ profileCache = NoRows
    /\ ghVersion = 0
    /\ generated = NoRows
    /\ call = NoCall

\* what fails during a call: the cache read, the call of GitHub or of the
\* LLM, the cache write, and for an analysis the call that gets the repository
Failures == {{}, {"read"}, {"upstream"}, {"write"}, {"read", "upstream"}, {"read", "write"}}

\* the user of the request context: AuthMiddleware has read the row
SignedIn == [id |-> 1, github_id |-> "gh-a", username |-> "alice", access_token |-> "gho_A"]

\* the row of a key before the call, as a sequence of none or one
RowBefore(table, key) == IF key \in DOMAIN table THEN <<table[key]>> ELSE <<>>

\* GitHubHandler.ListRepositories: ListUserRepositories for the user
CallList(includePrivate, failing) ==
    /\ SignedIn \in users
    /\ LET r == ListUserRepositories(listCache, UserIDs(users), SignedIn.id, includePrivate,
                                     now, ghVersion, "read" \notin failing,
                                     "upstream" \notin failing, "write" \notin failing)
       IN  /\ listCache' = r.cache
           /\ call' = [seen |-> TRUE, op |-> "ListUserRepositories",
                       key |-> <<SignedIn.id, includePrivate>>, at |-> now,
                       err |-> r.err, hit |-> r.hit, fetched |-> r.fetched,
                       writeFailed |-> r.writeFailed, result |-> <<r.repos>>]
    /\ UNCHANGED <<analysisCache, profileCache, ghVersion, generated>>

\* GitHubHandler.AnalyzeRepository: AnalyzeRepository for an owner and a name
CallAnalyze(owner, repo, failing) ==
    /\ SignedIn \in users
    /\ LET r == AnalyzeRepository(analysisCache, owner, repo, now, ghVersion,
                                  "info" \notin failing, "read" \notin failing,
                                  "upstream" \notin failing, "write" \notin failing)
       IN  /\ analysisCache' = r.cache
           /\ call' = [seen |-> TRUE, op |-> "AnalyzeRepository",
                       key |-> GitHubIDOf(owner, repo), at |-> now,
                       err |-> r.err, hit |-> r.hit, fetched |-> r.fetched,
                       writeFailed |-> r.writeFailed, result |-> r.analysis]
    /\ UNCHANGED <<listCache, profileCache, ghVersion, generated>>

\* ProfileHandler.Generate: GenerateProfile for the user
CallGenerate(apiKey, targetRole, n, failing) ==
    /\ SignedIn \in users
    /\ LET req == ProfileRequest(apiKey, targetRole, n)
           r == GenerateProfile(profileCache, users, SignedIn, req, now,
                                "read" \notin failing, "upstream" \notin failing,
                                "write" \notin failing)
       IN  /\ profileCache' = r.cache
           /\ call' = [seen |-> TRUE, op |-> "GenerateProfile", key |-> r.key, at |-> now,
                       dbOK |-> failing = {},
                       prior |-> RowBefore(generated, r.key),
                       err |-> r.err, hit |-> r.hit, fetched |-> r.fetched,
                       writeFailed |-> r.writeFailed, result |-> r.response]
    /\ UNCHANGED <<listCache, analysisCache, ghVersion>>

\* history: the call just made generated a profile, with no failure around it
RecordGeneration ==
    generated' = IF call'.fetched /\ ~call'.err /\ call'.dbOK
                 THEN Upsert(generated, call'.key,
                             [at |-> now, response |-> call'.result])
                 ELSE generated

\* the repositories at GitHub change
UpstreamChange ==
    /\ ghVersion < MaxVersion
    /\ ghVersion' = ghVersion + 1
    /\ UNCHANGED <<listCache, analysisCache, profileCache, generated, call>>

\* `call` only observes a call: it is cleared before the next step is taken
CallObserved ==
    /\ call.seen
    /\ call' = NoCall
    /\ UNCHANGED <<listCache, analysisCache, profileCache, ghVersion, generated>>

(* ------------------- batch analysis ------------------------------------ *)
\* A full name is held as strings.Split(fullName, "/") gives it: its parts.
NoBatch == [results |-> NoRows, errs |-> <<>>, visited |-> <<>>, outcome |-> <<>>]

\* one pass of the loop of BatchAnalyzeRepositories over the name at place i;
\* acc: the results, the errors and the names visited so far, and the cache
BatchStep(acc, fullName, t, version, failing) ==
    LET r == AnalyzeRepository(acc.cache, fullName[1], fullName[2], t, version,
                               "info" \notin failing, "read" \notin failing,
                               "upstream" \notin failing, "write" \notin failing)
        seen == [acc EXCEPT !.visited = Append(@, fullName)]
    IN  IF Len(fullName) # 2
        THEN [seen EXCEPT !.errs = Append(@, [name |-> fullName, kind |-> "invalid"]),
                          !.outcome = Append(@, "invalid"), !.failed = TRUE]
        ELSE IF r.err
        THEN [seen EXCEPT !.errs = Append(@, [name |-> fullName, kind |-> "analysis"]),
                          !.outcome = Append(@, "analysis"), !.failed = TRUE]
        ELSE [seen EXCEPT !.results = Upsert(@, fullName, r.analysis[1]),
                          !.outcome = Append(@, "ok"),
                          !.cache = r.cache, !.failed = FALSE]

RECURSIVE BatchLoopUntilFailure(_, _, _, _, _, _)
BatchLoopUntilFailure(acc, repos, failing, i, t, version) ==
    IF i > Len(repos) \/ acc.failed THEN acc
    ELSE BatchLoopUntilFailure(BatchStep(acc, repos[i], t, version, failing[i]),
                               repos, failing, i + 1, t, version)

RECURSIVE BatchLoop(_, _, _, _, _, _)
BatchLoop(acc, repos, failing, i, t, version) ==
    IF i > Len(repos) THEN acc
    ELSE BatchLoop(BatchStep(acc, repos[i], t, version, failing[i]),
                   repos, failing, i + 1, t, version)

BatchStart(cache) ==
    [results |-> NoRows, errs |-> <<>>, visited |-> <<>>, outcome |-> <<>>,
     cache |-> cache, failed |-> FALSE]

BatchAnalyzeUntilFailure(cache, repos, failing, t, version) ==
    BatchLoopUntilFailure(BatchStart(cache), repos, failing, 1, t, version)

\* GitHubService.BatchAnalyzeRepositories; failing[i]: what fails while the
\* i-th name is analysed. errs is what errors.Join receives: the returned error
\* is nil exactly when errs is empty
BatchAnalyzeRepositories(cache, repos, failing, t, version) ==
    BatchLoop(BatchStart(cache), repos, failing, 1, t, version)

\* the names of the model: two repositories GitHub has, one it has not, a
\* name without a slash and one with two
BatchNames == {<<"alice", "api">>, <<"alice", "gone">>, <<"api">>, <<"a", "b", "c">>}

BatchInputs == UNION {[1..n -> BatchNames] : n \in 0..MaxBatch}

BatchFailures == {{}, {"upstream"}, {"write"}}

\* GitHubHandler.BatchAnalyze: 400 without a call for no name or more than
\* 10, else the batch is analysed: 500 when the joined error is not nil
CallBatch(repos, failing) ==
    /\ SignedIn \in users
    /\ LET r == BatchAnalyzeRepositories(analysisCache, repos, failing, now, ghVersion)
           called == Len(repos) # 0 /\ Len(repos) <= BatchLimit
       IN  /\ analysisCache' = IF called THEN r.cache ELSE analysisCache
           /\ call' = [seen |-> TRUE, op |-> "BatchAnalyzeRepositories", at |-> now,
                       repos |-> repos, failing |-> failing, called |-> called,
                       status |-> IF ~called THEN 400
                                  ELSE IF r.errs # <<>> THEN 500 ELSE 200,
                       out |-> IF called THEN [results |-> r.results, errs |-> r.errs,
                                               visited |-> r.visited,
                                               outcome |-> r.outcome]
                               ELSE NoBatch]
    /\ UNCHANGED <<listCache, profileCache, ghVersion, generated>>

\* RepositoryCacheRepository.InvalidateAllRepositoryLists: DELETE FROM
\* repository_list_cache WHERE user_id
InvalidateAllRepositoryLists(cache, userID, dbOK) ==
    IF ~dbOK THEN [err |-> TRUE, cache |-> cache]
    ELSE [err |-> FALSE,
          cache |-> [k \in {k \in DOMAIN cache : k[1] # userID} |-> cache[k]]]

\* GitHubService.ClearUserCache: the repository lists of the user are
\* invalidated, a failure is logged, and nil is returned
ClearUserCache(cache, userID, dbOK) ==
    LET inv == InvalidateAllRepositoryLists(cache, userID, dbOK)
    IN  [err |-> FALSE, cache |-> inv.cache]

\* GitHubHandler.ClearCache: ClearUserCache for the user of the request, 500
\* on its error, else 200
CallClearCache(dbOK) ==
    /\ SignedIn \in users
    /\ LET r == ClearUserCache(listCache, SignedIn.id, dbOK)
       IN  /\ listCache' = r.cache
           /\ call' = [seen |-> TRUE, op |-> "ClearUserCache", key |-> SignedIn.id,
                       at |-> now, status |-> IF r.err THEN 500 ELSE 200]
    /\ UNCHANGED <<analysisCache, profileCache, ghVersion, generated>>

(* ------------------------- profile deployment -------------------------- *)
\* the SHA of a file that is not there: the empty string of the source
NoSHA == 0

InitDeploy == readme = [exists |-> FALSE, sha |-> NoSHA]

\* Client.GetProfileReadmeSHA: the SHA of README.md; a 404 is no error and no
\* SHA; any other failure of the request is an error
GetProfileReadmeSHA(file, lookup) ==
    IF lookup = "fail" THEN [sha |-> NoSHA, err |-> TRUE]
    ELSE IF ~file.exists THEN [sha |-> NoSHA, err |-> FALSE]
    ELSE [sha |-> file.sha, err |-> FALSE]

\* GitHub's contents API behind Repositories.CreateFile: a file that exists is
\* replaced only when its current SHA is given; a file that does not exist is
\* created; every write gives the file a new SHA
GitHubAccepts(file, sha) ==
    IF file.exists THEN sha = file.sha ELSE TRUE

\* Client.CreateOrUpdateFile: the SHA is sent only when it is not empty; an
\* error, or a status other than 200 and 201, is an error
CreateOrUpdateFile(file, message, sha, putOK) ==
    LET ok == putOK /\ GitHubAccepts(file, sha)
    IN  [err |-> ~ok,
         file |-> IF ok THEN [exists |-> TRUE, sha |-> file.sha + 1] ELSE file]

\* GitHubService.DeployProfileREADME: the SHA is looked up, an error of the
\* lookup leaves it empty; the message is chosen by the SHA; the file is written
DeployProfileREADME(file, lookup, putOK) ==
    LET got == GetProfileReadmeSHA(file, lookup)
        currentSHA == IF ~got.err THEN got.sha ELSE NoSHA
        message == IF currentSHA = NoSHA THEN "Create profile README via GitRight"
                   ELSE "Update profile README via GitRight"
        put == CreateOrUpdateFile(file, message, currentSHA, putOK)
    IN  [err |-> put.err, file |-> put.file, sha |-> currentSHA, message |-> message,
         lookupErr |-> got.err]

\* ProfileService.DeployProfile: DeployProfileREADME, its error wrapped
DeployProfile(file, lookup, putOK) == DeployProfileREADME(file, lookup, putOK)

\* what a deployment did, when the endpoint is not Deploy or it was not reached
NoDeploy == [attempted |-> FALSE]

\* the three endpoints of ProfileHandler
ProfileEndpoints == {"generate", "preview", "deploy"}

\* ProfileHandler.Generate, Preview and Deploy: GenerateProfile for the user,
\* 500 on its error; Deploy then calls DeployProfile with the document, 500
\* on its error; 200 otherwise
CallProfileEndpoint(endpoint, apiKey, targetRole, n, failing, lookup, putOK) ==
    /\ SignedIn \in users
    /\ endpoint = "deploy" => readme.sha < MaxRevisions
    /\ LET req == ProfileRequest(apiKey, targetRole, n)
           r == GenerateProfile(profileCache, users, SignedIn, req, now,
                                "read" \notin failing, "upstream" \notin failing,
                                "write" \notin failing)
           deploys == endpoint = "deploy" /\ ~r.err
           d == DeployProfile(readme, lookup, putOK)
       IN  /\ profileCache' = r.cache
           /\ readme' = IF deploys THEN d.file ELSE readme
           /\ call' = [seen |-> TRUE, op |-> "GenerateProfile", key |-> r.key, at |-> now,
                       endpoint |-> endpoint, apiKey |-> apiKey, projects |-> n,
                       status |-> IF r.err \/ (deploys /\ d.err) THEN 500 ELSE 200,
                       err |-> r.err, hit |-> r.hit, fetched |-> r.fetched,
                       set |-> IF r.fetched /\ ~r.err
                               THEN <<[cacheKey |-> r.key, response |-> r.response[1]]>>
                               ELSE <<>>,
                       deploy |-> IF ~deploys THEN NoDeploy
                                  ELSE [attempted |-> TRUE, existed |-> readme.exists,
                                        before |-> readme.sha, sha |-> d.sha,
                                        message |-> d.message, lookupErr |-> d.lookupErr,
                                        err |-> d.err]]
    /\ UNCHANGED <<listCache, analysisCache, ghVersion, generated>>

\* the user changes or creates README.md at GitHub, outside the server
ReadmePushed ==
    /\ readme.sha < MaxRevisions
    /\ readme' = [exists |-> TRUE, sha |-> readme.sha + 1]

\* the user deletes README.md at GitHub
ReadmeDeleted ==
    /\ readme.exists
    /\ readme' = [readme EXCEPT !.exists = FALSE]

(* --------------------- the LLM client of a generation ------------------ *)
\* config.GoogleAIConfig as loaded at start: the key of the server's
\* environment and the model
ServerLLMConfig == [APIKey |-> "env-key", Model |-> "gemini"]

\* a generation request that has not started
NoGeneration ==
    [pc |-> "idle", apiKey |-> "", projects |-> 0, client |-> [APIKey |-> "", Model |-> ""],
     calls |-> <<>>, err |-> FALSE]

InitLLM ==
    /\ sharedConfig = ServerLLMConfig
    /\ gen = [p \in {"g1", "g2"} |-> NoGeneration]

\* createClientWithAPIKey, with config a reference to the shared
\* configuration instead of a copy of it
createClientOnSharedConfig(shared, apiKey, ok) ==
    [shared |-> [shared EXCEPT !.APIKey = apiKey],
     client |-> [shared EXCEPT !.APIKey = apiKey], err |-> ~ok]

\* ContentGenerator.createClientWithAPIKey: config is a copy of
\* cg.client.config (a struct value), the key is set in the copy and
\* NewGeminiClient builds a client that holds the copy
createClientWithAPIKey(shared, apiKey, ok) ==
    LET config == [shared EXCEPT !.APIKey = apiKey]
    IN  [shared |-> shared, client |-> config, err |-> ~ok]

\* GenerateStructuredContent that calls again after a failure, up to
\* MaxRetries more times
GenerateContentWithRetries(g, ok) ==
    [g EXCEPT !.calls = Append(@, g.client.APIKey),
              !.pc = IF ok THEN "assemble"
                     ELSE IF Len(g.calls) < MaxRetries THEN "call" ELSE "done",
              !.err = ~ok /\ Len(g.calls) >= MaxRetries]

\* GeminiClient.GenerateStructuredContent with GenerateContent: one call of
\* Models.GenerateContent with the key of the client; its error is returned
GenerateStructuredContent(g, ok) ==
    [g EXCEPT !.calls = Append(@, g.client.APIKey),
              !.pc = IF ok THEN "assemble" ELSE "done",
              !.err = ~ok]

\* GenerateProfile up to the creation of the client: the validation of the
\* request and the lookup of the cache
GenBegin(p, apiKey, n, readOK) ==
    /\ gen[p].pc \in {"idle", "done"}
    /\ SignedIn \in users
    /\ LET req == ProfileRequest(apiKey, "Backend Engineer", n)
           cacheKey == GetCacheKey(SignedIn.username, req.TargetRole, req.ToneOfVoice,
                                   Len(req.Projects))
           cached == ProfileCacheGet(profileCache, cacheKey, now, readOK)
           g == [NoGeneration EXCEPT !.apiKey = apiKey, !.projects = n]
       IN  gen' = [gen EXCEPT ![p] =
                     IF req.UserAPIKey = "" \/ Len(req.Projects) = 0
                     THEN [g EXCEPT !.pc = "done", !.err = TRUE]
                     ELSE IF ~cached.err /\ cached.found THEN [g EXCEPT !.pc = "done"]
                     ELSE [g EXCEPT !.pc = "client"]]
    /\ UNCHANGED <<sharedConfig, cacheVars>>

\* GenerateBatchedProfile: the client of this call is created
GenCreateClient(p, ok) ==
    /\ gen[p].pc = "client"
    /\ LET r == createClientWithAPIKey(sharedConfig, gen[p].apiKey, ok)
       IN  /\ sharedConfig' = r.shared
           /\ gen' = [gen EXCEPT ![p].client = r.client,
                                 ![p].pc = IF r.err THEN "done" ELSE "call",
                                 ![p].err = r.err]
    /\ UNCHANGED cacheVars

\* GenerateBatchedProfile: the prompt is sent to the LLM with the client
GenCall(p, ok) ==
    /\ gen[p].pc = "call"
    /\ gen' = [gen EXCEPT ![p] = GenerateStructuredContent(gen[p], ok)]
    /\ UNCHANGED <<sharedConfig, cacheVars>>

\* GenerateBatchedProfile: the answer is parsed and validated; GenerateProfile:
\* the document is assembled and the cache is written, best effort
GenAssemble(p, valid, writeOK) ==
    /\ gen[p].pc = "assemble"
    /\ LET req == ProfileRequest(gen[p].apiKey, "Backend Engineer", gen[p].projects)
           r == GenerateProfile(profileCache, users, SignedIn, req, now, FALSE, TRUE, writeOK)
       IN  /\ profileCache' = IF valid THEN r.cache ELSE profileCache
           /\ gen' = [gen EXCEPT ![p].pc = "done", ![p].err = ~valid]
    /\ UNCHANGED <<sharedConfig, listCache, analysisCache, ghVersion, generated, call>>

(* --------------------------- specification ----------------------------- *)
InitOf(usrs, requests) ==
    /\ now = 0
    /\ sessions = [i \in {} |-> 0]
    /\ users = usrs
    /\ issued = {}
    /\ nStates = 0
    /\ loginAt = [i \in {} |-> 0]
    /\ loggedOut = {}
    /\ last = NoRequest
    /\ cb = [p \in requests |-> Idle]
    /\ InitWs
    /\ InitPipe
    /\ InitCache
    /\ InitDeploy
    /\ InitLLM
    /\ userHist = NoHistory

\* one callback request at a time
InitWith(usrs) == InitOf(usrs, {"r1"})

Init == InitWith({})

\* a user has signed in before
InitSignedIn == InitWith({SignedIn})

\* `last` only observes a request: it is cleared before the next step is taken
Observed ==
    /\ last.seen
    /\ last' = NoRequest
    /\ UNCHANGED <<now, sessions, users, issued, nStates, loginAt, loggedOut, cb>>

\* the steps of the authentication leave the rest alone
AuthOnly == UNCHANGED <<wsVars, pipeVars, cacheVars, deployVars, llmVars, histVars>>

\* the OAuth sign-in: Login and Callback with every input and every failure
NextCallback ==
    \/ Tick /\ AuthOnly
    \/ Cleanup /\ AuthOnly
    \/ AuthOnly /\ \E randOK, dbOK \in BOOLEAN : Login(randOK, dbOK)
    \/ AuthOnly /\ \E p \in DOMAIN cb, code \in Codes, state \in StateParams,
                      dbOK \in BOOLEAN : CallbackValidate(p, code, state, dbOK)
    \/ AuthOnly /\ \E p \in DOMAIN cb, ghOK \in {"ok", "exchange", "user"},
                      lookupOK, writeOK \in BOOLEAN :
                        CallbackHandle(p, ghOK, lookupOK, writeOK)
    \/ AuthOnly /\ \E p \in DOMAIN cb, randOK, dbOK \in BOOLEAN :
                        CallbackFinish(p, randOK, dbOK)

SpecCallback == Init /\ [][NextCallback]_vars

\* no callback is between its state check and its answer
NoCallbackInFlight == \A p \in DOMAIN cb : cb[p].pc \in {"idle", "done"}

\* the sessions: users sign in and then send requests of every kind to the
\* protected routes.  Here the sign-ins are those of one GitHub account, meet
\* no failure of GitHub or of the database and run to their answer before
\* anything else happens; SpecCallback has the other sign-ins.
NextSession ==
    \/ Observed /\ AuthOnly
    \/ AuthOnly /\ ~last.seen /\ NoCallbackInFlight /\ Tick
    \/ AuthOnly /\ ~last.seen /\ NoCallbackInFlight /\ Cleanup
    \/ AuthOnly /\ ~last.seen /\ NoCallbackInFlight /\ Login(TRUE, TRUE)
    \/ AuthOnly /\ ~last.seen /\ \E p \in DOMAIN cb, state \in DOMAIN loginAt :
                            CallbackValidate(p, "codeA", state, TRUE)
    \/ AuthOnly /\ ~last.seen /\ \E p \in DOMAIN cb : CallbackHandle(p, "ok", TRUE, TRUE)
    \/ AuthOnly /\ ~last.seen /\ \E p \in DOMAIN cb : CallbackFinish(p, TRUE, TRUE)
    \/ AuthOnly /\ ~last.seen /\ NoCallbackInFlight
          /\ \E hdr \in Headers, handler \in Handlers, revOK, usrOK, wrOK \in BOOLEAN :
                Request(hdr, handler, revOK, usrOK, wrOK)

SpecSession == Init /\ [][NextSession]_vars

\* one WebSocket connection: the handler and its reader goroutine, scheduled
\* in any order; the reader may stay at a step for ever
WsOnly == UNCHANGED <<authVars, pipeVars, cacheVars, deployVars, llmVars, histVars>>

NextWs ==
    \/ WsOnly /\ \E ok \in BOOLEAN : WsOpen(ok)
    \/ WsOnly /\ WsSend
    \/ WsOnly /\ \E err \in BOOLEAN : WsGenerate(err)
    \/ WsOnly /\ WsClose
    \/ WsOnly /\ WsFinish
    \/ WsOnly /\ ReaderReceive
    \/ WsOnly /\ ReaderCancelled
    \/ WsOnly /\ \E ok \in BOOLEAN : ReaderWrite(ok)
    \/ WsOnly /\ CtxCancel

SpecWs == Init /\ [][NextWs]_vars

\* the content assembly run twice on one input, every input of the model
PipeOnly == UNCHANGED <<authVars, wsVars, cacheVars, deployVars, llmVars, histVars>>

NextPipe ==
    \/ PipeOnly /\ \E user \in PipeUsers, project \in PipeProjects,
                      emphasized \in PipeEmphasized, llmSkills \in PipeLLMSkills :
                        PipeInput(user, project, emphasized, llmSkills)
    \/ PipeOnly /\ \E r \in Runs : pipeIn.given /\
          \E order \in BadgeOrders(pipeIn.req.Projects, pipeIn.resp.ExtractedSkills,
                                   pipeIn.req.EmphasizedSkills) : PipeBadges(r, order)
    \/ PipeOnly /\ \E r \in Runs : pipeIn.given /\
          \E topSorted, projSorted \in TopLanguageOrders(pipeIn.req.Projects) :
              PipeMarkdown(r, topSorted, projSorted)

    \/ PipeOnly /\ \E r \in Runs : PipeAgain(r)

SpecPipe == Init /\ [][NextPipe]_vars

\* GenerateProfile up to the badges, over the inputs of the badges
NextBadges ==
    \/ PipeOnly /\ \E user \in PipeUsers, project \in BadgeProjects,
                      emphasized \in BadgeEmphasized, llmSkills \in BadgeLLMSkills :
                        PipeInput(user, project, emphasized, llmSkills)
    \/ PipeOnly /\ \E r \in Runs : pipeIn.given /\
          \E order \in BadgeOrders(pipeIn.req.Projects, pipeIn.resp.ExtractedSkills,
                                   pipeIn.req.EmphasizedSkills) : PipeBadges(r, order)

SpecBadges == Init /\ [][NextBadges]_vars

\* buildMarkdown up to the grouping of the badges, over badge slices
NextCategories ==
    \/ PipeOnly /\ \E badges \in BadgeSlices : OrganizeInput(1, badges)
    \/ PipeOnly /\ Organize(1)

SpecCategories == Init /\ [][NextCategories]_vars

\* the service calls of a signed-in user against the caches, while time passes
\* and GitHub's data changes
CacheOnly == UNCHANGED <<wsVars, pipeVars, deployVars, llmVars, histVars>>

NextCache ==
    \/ CacheOnly /\ UNCHANGED authVars /\ CallObserved
    \/ CacheOnly /\ ~call.seen /\ Tick /\ UNCHANGED cacheVars
    \/ CacheOnly /\ ~call.seen /\ UNCHANGED authVars /\ UpstreamChange
    \/ CacheOnly /\ ~call.seen /\ UNCHANGED authVars /\
          \E includePrivate \in BOOLEAN, failing \in Failures :
              CallList(includePrivate, failing)
    \/ CacheOnly /\ ~call.seen /\ UNCHANGED authVars /\
          \E repo \in {"api", "gone"}, failing \in Failures \cup {{"info"}} :
              CallAnalyze("alice", repo, failing)
    \/ CacheOnly /\ ~call.seen /\ UNCHANGED authVars /\
          \E apiKey \in {"", "key"}, n \in {0, 1}, failing \in Failures :
              CallGenerate(apiKey, "Backend Engineer", n, failing) /\ UNCHANGED generated

SpecCache == InitSignedIn /\ [][NextCache]_vars

\* the calls of GenerateProfile of a signed-in user while time passes, with
\* the history of what was generated
ProfileOnly ==
    UNCHANGED <<authVars, wsVars, pipeVars, deployVars, llmVars, histVars, listCache,
                analysisCache, ghVersion>>

NextProfile ==
    \/ ProfileOnly /\ CallObserved
    \/ CacheOnly /\ ~call.seen /\ Tick /\ UNCHANGED cacheVars
    \/ ProfileOnly /\ ~call.seen /\
          \E apiKey \in {"", "key"}, targetRole \in {"Backend Engineer", "SRE"},
             n \in {0, 1}, failing \in Failures :
              CallGenerate(apiKey, targetRole, n, failing) /\ RecordGeneration

SpecProfile == InitSignedIn /\ [][NextProfile]_vars

\* batches of analyses of a signed-in user while time passes
BatchOnly == UNCHANGED <<authVars, wsVars, pipeVars, deployVars, llmVars, histVars>>

NextBatch ==
    \/ BatchOnly /\ CallObserved
    \/ CacheOnly /\ ~call.seen /\ Tick /\ UNCHANGED cacheVars
    \/ BatchOnly /\ ~call.seen /\
          \E repos \in BatchInputs : \E failing \in [DOMAIN repos -> BatchFailures] :
              CallBatch(repos, failing)

SpecBatch == InitSignedIn /\ [][NextBatch]_vars

\* the endpoints that validate their input: the three profile endpoints, the
\* batch analysis and the OAuth callback, with every input, at one instant
HttpBatchInputs ==
    {<<>>, <<<<"alice", "api">>>>, [i \in 1..(BatchLimit + 1) |-> <<"alice", "api">>]}

HttpFailures == {{}, {"upstream"}}

HttpOnly == UNCHANGED <<wsVars, pipeVars, llmVars, histVars>>

NextHttp ==
    \/ HttpOnly /\ UNCHANGED <<authVars, readme>> /\ CallObserved
    \/ HttpOnly /\ ~call.seen /\ UNCHANGED authVars /\
          \E endpoint \in ProfileEndpoints, apiKey \in {"", "key"}, n \in {0, 1},
             failing \in HttpFailures, lookup \in {"ok", "fail"}, putOK \in BOOLEAN :
              /\ endpoint # "deploy" => lookup = "ok" /\ putOK
              /\ CallProfileEndpoint(endpoint, apiKey, "Backend Engineer", n, failing,
                                     lookup, putOK)
    \/ HttpOnly /\ ~call.seen /\ UNCHANGED <<authVars, readme>> /\
          \E repos \in HttpBatchInputs : \E failing \in [DOMAIN repos -> {{}}] :
              CallBatch(repos, failing)
    \/ HttpOnly /\ ~call.seen /\ UNCHANGED <<cacheVars, readme>> /\
          \E dbOK \in BOOLEAN : Login(TRUE, dbOK)
    \/ HttpOnly /\ ~call.seen /\ UNCHANGED <<cacheVars, readme>> /\
          \E p \in DOMAIN cb, code \in Codes, state \in StateParams, dbOK \in BOOLEAN :
              CallbackValidate(p, code, state, dbOK)
    \/ HttpOnly /\ ~call.seen /\ UNCHANGED <<cacheVars, readme>> /\
          \E p \in DOMAIN cb, ghOK \in {"ok", "exchange"} :
              CallbackHandle(p, ghOK, TRUE, TRUE)
    \/ HttpOnly /\ ~call.seen /\ UNCHANGED <<cacheVars, readme>> /\
          \E p \in DOMAIN cb, dbOK \in BOOLEAN : CallbackFinish(p, TRUE, dbOK)

SpecHttp == InitSignedIn /\ [][NextHttp]_vars

\* two generation requests of a signed-in user, each with its own API key,
\* interleaved statement by statement
LLMOnly == UNCHANGED <<authVars, wsVars, pipeVars, deployVars, histVars>>

NextLLM ==
    \/ LLMOnly /\ \E p \in DOMAIN gen, apiKey \in {"", "keyA", "keyB"}, n \in 0..2,
                    readOK \in BOOLEAN : GenBegin(p, apiKey, n, readOK)
    \/ LLMOnly /\ \E p \in DOMAIN gen, ok \in BOOLEAN : GenCreateClient(p, ok)
    \/ LLMOnly /\ \E p \in DOMAIN gen, ok \in BOOLEAN : GenCall(p, ok)
    \/ LLMOnly /\ \E p \in DOMAIN gen, valid, writeOK \in BOOLEAN :
                    GenAssemble(p, valid, writeOK)

SpecLLM == InitSignedIn /\ [][NextLLM]_vars

\* sign-ins side by side: two callback requests, for one GitHub account or
\* for two, interleaved at the statements that read and write the users table
UsersOnly == UNCHANGED <<wsVars, pipeVars, cacheVars, deployVars, llmVars>>

InitUsers == InitOf({}, {"r1", "r2"})

NextUsers ==
    \/ UsersOnly /\ UNCHANGED histVars /\ Login(TRUE, TRUE)
    \/ UsersOnly /\ UNCHANGED histVars /\
          \E p \in DOMAIN cb, code \in {"codeA", "codeA2", "codeB"},
             state \in DOMAIN loginAt : CallbackValidate(p, code, state, TRUE)
    \/ UsersOnly /\ UNCHANGED histVars /\
          \E p \in DOMAIN cb, ghOK \in {"ok", "exchange"}, lookupOK \in BOOLEAN :
              CallbackLookup(p, ghOK, lookupOK)
    \/ UsersOnly /\ \E p \in DOMAIN cb, writeOK \in BOOLEAN :
                      CallbackWrite(p, writeOK) /\ RecordWrite(p)
    \/ UsersOnly /\ \E p \in DOMAIN cb, randOK \in BOOLEAN :
                      CallbackFinish(p, randOK, TRUE) /\ RecordLogin(p)

SpecUsers == InitUsers /\ [][NextUsers]_vars

\* two callbacks carry OAuth states, one after the other or side by side,
\* each with a code GitHub has not exchanged yet; the deletion of the state
\* may fail
NextStates ==
    \/ UsersOnly /\ UNCHANGED histVars /\ Login(TRUE, TRUE)
    \/ UsersOnly /\ UNCHANGED histVars /\
          \E p \in DOMAIN cb, code \in {"codeA", "codeB"}, state \in DOMAIN loginAt :
              CallbackValidate(p, code, state, TRUE)
    \/ UsersOnly /\ \E p \in DOMAIN cb :
                      CallbackHandle(p, ExchangeOf(p), TRUE, TRUE) /\ RecordExchange(p)
    \/ UsersOnly /\ \E p \in DOMAIN cb, dbOK \in BOOLEAN :
                      CallbackFinish(p, TRUE, dbOK) /\ RecordState(p)

SpecStates == InitUsers /\ [][NextStates]_vars

\* a signed-in user lists repositories, generates profiles and clears the
\* cache, while time passes
NextClear ==
    \/ CacheOnly /\ UNCHANGED authVars /\ CallObserved
    \/ CacheOnly /\ ~call.seen /\ Tick /\ UNCHANGED cacheVars
    \/ CacheOnly /\ ~call.seen /\ UNCHANGED authVars /\
          \E includePrivate \in BOOLEAN, failing \in Failures :
              CallList(includePrivate, failing)
    \/ CacheOnly /\ ~call.seen /\ UNCHANGED authVars /\
          \E apiKey \in {"", "key"}, failing \in Failures :
              CallGenerate(apiKey, "Backend Engineer", 1, failing) /\ UNCHANGED generated
    \/ CacheOnly /\ ~call.seen /\ UNCHANGED authVars /\
          \E dbOK \in BOOLEAN : CallClearCache(dbOK)

SpecClear == InitSignedIn /\ [][NextClear]_vars

\* the sessions of one account with the cleanup of expired rows observed
CleanupOnly == UNCHANGED <<wsVars, pipeVars, deployVars, llmVars, histVars>>

NextCleanup ==
    \/ CleanupOnly /\ Observed /\ UNCHANGED cacheVars
    \/ CleanupOnly /\ UNCHANGED authVars /\ CallObserved
    \/ CleanupOnly /\ ~last.seen /\ ~call.seen /\ NoCallbackInFlight /\ Tick
          /\ UNCHANGED cacheVars
    \/ CleanupOnly /\ ~last.seen /\ ~call.seen /\ NoCallbackInFlight /\ CallCleanup
    \/ CleanupOnly /\ ~last.seen /\ ~call.seen /\ NoCallbackInFlight /\ Login(TRUE, TRUE)
          /\ UNCHANGED cacheVars
    \/ CleanupOnly /\ ~last.seen /\ ~call.seen /\ UNCHANGED cacheVars /\
          \E p \in DOMAIN cb, state \in DOMAIN loginAt :
              CallbackValidate(p, "codeA", state, TRUE)
    \/ CleanupOnly /\ ~last.seen /\ ~call.seen /\ UNCHANGED cacheVars /\
          \E p \in DOMAIN cb : CallbackHandle(p, "ok", TRUE, TRUE)
    \/ CleanupOnly /\ ~last.seen /\ ~call.seen /\ UNCHANGED cacheVars /\
          \E p \in DOMAIN cb : CallbackFinish(p, TRUE, TRUE)
    \/ CleanupOnly /\ ~last.seen /\ ~call.seen /\ NoCallbackInFlight
          /\ UNCHANGED cacheVars
          /\ \E hdr \in Headers, handler \in Handlers :
                Request(hdr, handler, TRUE, TRUE, TRUE)

SpecCleanup == Init /\ [][NextCleanup]_vars

\* a signed-in user deploys profiles while README.md of the profile
\* repository is also changed and deleted at GitHub
DeployOnly == UNCHANGED <<authVars, wsVars, pipeVars, llmVars, histVars>>

NextDeploy ==
    \/ DeployOnly /\ UNCHANGED readme /\ CallObserved
    \/ DeployOnly /\ ~call.seen /\
          \E apiKey \in {"", "key"}, n \in {0, 1}, failing \in HttpFailures,
             lookup \in {"ok", "fail"}, putOK \in BOOLEAN :
              CallProfileEndpoint("deploy", apiKey, "Backend Engineer", n, failing,
                                  lookup, putOK)
    \/ UNCHANGED <<wsVars, pipeVars, deployVars, llmVars, histVars>> /\ ~call.seen /\
          Tick /\ UNCHANGED cacheVars
    \/ DeployOnly /\ ~call.seen /\ UNCHANGED cacheVars /\ ReadmePushed
    \/ DeployOnly /\ ~call.seen /\ UNCHANGED cacheVars /\ ReadmeDeleted

SpecDeploy == InitSignedIn /\ [][NextDeploy]_vars

(* ======================= properties: sessions ========================== *)
\* the token of the last request, when its header has the form Bearer <token>
LastToken == last.hdr[2]
LastIsBearer == last.seen /\ Len(last.hdr) = 2 /\ last.hdr[1] = "Bearer"

\* C1 (as claimed): after Logout has succeeded for a token, no later request
\* carrying that token is passed by AuthMiddleware to a protected handler.
C1_RevokedTokenNeverPasses ==
    ~(last.seen /\ last.priorLogout /\ last.res.pass)

\* C2: AuthMiddleware invokes the handler only if the header is Bearer <token>,
\* the token has three parts and the server's signature, the time does not
\* exceed exp, the blocklist lookup succeeded and reported not revoked, and the
\* user_id resolves to a user; otherwise it answers 401 and sets no context value.
C2_MiddlewarePassesOnlyValid ==
    last.seen =>
        /\ last.res.pass =>
              /\ Len(last.hdr) = 2 /\ last.hdr[1] = "Bearer"
              /\ Len(LastToken) = 3
              /\ LastToken[3] = createSignature(<<LastToken[1], LastToken[2]>>, ServerSecret)
              /\ Unix(last.at) <= LastToken[2].exp
              /\ LastToken[2].jti # EmptyJTI
              /\ ~last.res.rev.err /\ ~last.res.rev.revoked
              /\ ~last.res.usr.err
              /\ last.res.usr.user \in users
              /\ last.res.usr.user.id = LastToken[2].user_id
              /\ DOMAIN last.res.ctx =
                    {"user", "user_id", "username", "access_token", "jwt_jti", "jwt_exp"}
        /\ ~last.res.pass => last.res.status = 401 /\ DOMAIN last.res.ctx = {}

C2_Witness == last.seen /\ last.res.pass

\* C3: every issued token has a non-empty JTI of its own, and a request with an
\* issued, unexpired token for which no Logout has succeeded is passed whatever
\* Logouts succeeded for other tokens (the lookups not failing).
C3_RevocationIsPerToken ==
    /\ \A t1 \in issued : t1[2].jti # EmptyJTI
    /\ \A t1, t2 \in issued : t1 # t2 => t1[2].jti # t2[2].jti
    /\ ( /\ LastIsBearer
          /\ LastToken \in issued
          /\ Unix(last.at) <= LastToken[2].exp
          /\ ~last.priorLogout
          /\ ~last.res.rev.err
          /\ ~(last.res.usr.err /\ \E u \in users : u.id = LastToken[2].user_id) )
        => last.res.pass

\* a token is passed while the revocation of another token of the same user
\* is in force
C3_Witness ==
    /\ LastIsBearer
    /\ last.res.pass
    /\ \E t \in issued :
          /\ t # LastToken
          /\ t[2].user_id = LastToken[2].user_id
          /\ t[2].jti \in loggedOut
          /\ IsTokenRevoked(sessions, t[2].jti, last.at)

(* ======================= properties: callback ========================== *)
\* C4: a Callback exchanges the code, writes a user and issues a JWT only when
\* its state was stored by Login and is not older than its lifetime; with a
\* missing, unknown or expired state it answers 400 and does none of the three.
C4_CallbackNeedsFreshState ==
    \A p \in DOMAIN cb :
        /\ (cb[p].exchanged \/ cb[p].wrote \/ cb[p].issuedToken) => cb[p].fresh
        /\ (cb[p].pc # "idle" /\ ~cb[p].fresh) =>
              /\ cb[p].pc = "done" /\ cb[p].status = 400
              /\ ~cb[p].exchanged /\ ~cb[p].wrote /\ ~cb[p].issuedToken

C4_Witness ==
    \E p \in DOMAIN cb :
        cb[p].pc = "done" /\ cb[p].status = 200 /\ cb[p].fresh /\ cb[p].issuedToken

(* ===================== properties: progress channel ==================== *)
\* C5: the producer never blocks on the progress channel: at each of its sends
\* the step can be taken whatever the reader does, and the send enqueues the
\* update when fewer than 10 wait in the buffer and drops it when 10 do.
C5_SendNeverBlocks ==
    /\ wsPc \in SendPcs => ENABLED WsSend
    /\ Len(progressCh) <= 10
    /\ lastSend.made =>
          \/ lastSend.lenBefore < 10 /\ lastSend.enqueued
          \/ lastSend.lenBefore = 10 /\ ~lastSend.enqueued

\* all four updates were sent and GenerateProfile has returned while the reader
\* had not taken a single update
C5_Witness ==
    /\ wsPc = "close"
    /\ ~genErr
    /\ readerPc = "select"
    /\ written = <<>>
    /\ progressCh = <<"init", "analyzing", "generating", "finalizing">>

(* ===================== properties: content assembly ==================== *)
\* C6: two runs of buildBadgesFromProjectData and buildMarkdown on the same
\* user, request and LLM response give the same badge list in the same order
\* and the same document.
C6_AssemblyIsDeterministic ==
    (runs[1].pc = "done" /\ runs[2].pc = "done") =>
        /\ runs[1].badges = runs[2].badges
        /\ runs[1].markdown = runs[2].markdown

(* ========================= properties: caches ========================== *)
\* C7: when GenerateProfile generated a profile, a later call of the same user
\* with the same role, tone and project count less than 24 hours after it is
\* served from the cache: it returns the stored response and the LLM is not
\* called. (Stated for calls around which nothing of the database failed.)
C7_SecondCallServedFromCache ==
    (/\ call.seen /\ call.op = "GenerateProfile"
     /\ call.dbOK
     /\ call.prior # <<>>
     /\ call.at - call.prior[1].at < ProfileTTL)
    => /\ call.hit
       /\ ~call.fetched
       /\ ~call.err
       /\ call.result = call.prior[1].response

\* the TTL of the cache a call reads and writes, and that cache's row of the
\* call's key
TTLOf(op) ==
    IF op = "ListUserRepositories" THEN RepositoryListTTL
    ELSE IF op = "AnalyzeRepository" THEN RepositoryAnalysisTTL
    ELSE ProfileTTL

TableOf(op) ==
    IF op = "ListUserRepositories" THEN listCache
    ELSE IF op = "AnalyzeRepository" THEN analysisCache
    ELSE profileCache

WrittenAt(op, row) ==
    IF op = "ListUserRepositories" THEN row.cached_at
    ELSE IF op = "AnalyzeRepository" THEN row.analyzed_at
    ELSE row.last_accessed_at

\* C8: a call is served from a cache only by a row that has not reached its
\* expiry, which lies 5 minutes, 7 days or 24 hours after the row was written;
\* otherwise the call is a miss, the data is fetched from its source, and when
\* it was fetched and stored the row expires that long after the call.
C8_NoReadAtOrAfterExpiry ==
    call.seen =>
        LET table == TableOf(call.op)
            row == table[call.key]
        IN  /\ call.hit =>
                  /\ call.key \in DOMAIN table
                  /\ call.at < row.expires_at
                  /\ row.expires_at = WrittenAt(call.op, row) + TTLOf(call.op)
                  /\ call.at - WrittenAt(call.op, row) < TTLOf(call.op)
                  /\ ~call.fetched /\ ~call.err
            /\ (~call.hit /\ ~call.err) =>
                  /\ call.fetched
                  /\ ~call.writeFailed =>
                        /\ call.key \in DOMAIN table
                        /\ WrittenAt(call.op, row) = call.at
                        /\ row.expires_at = call.at + TTLOf(call.op)

\* an expired row was in the cache; the call missed it, fetched the data and
\* wrote the row anew (the row's write time is the call's, and the clock has
\* passed the first expiry of the key)
C8_Witness ==
    /\ call.seen /\ call.op = "AnalyzeRepository"
    /\ ~call.hit /\ call.fetched /\ ~call.err /\ ~call.writeFailed
    /\ call.at >= RepositoryAnalysisTTL
    /\ analysisCache[call.key].analyzed_at = call.at

\* what the source of a call's data gives at the moment of the call
FreshResult ==
    IF call.op = "ListUserRepositories"
    THEN <<SelectSeq(GitHubRepos(ghVersion), LAMBDA gr : call.key[2] \/ ~gr.Private)>>
    ELSE IF call.op = "AnalyzeRepository"
    THEN <<AnalysisOf("alice", "api", ghVersion)>>
    ELSE <<GenerateProfile(NoRows, users, SignedIn,
                           ProfileRequest("key", call.key[3], 1), call.at,
                           TRUE, TRUE, TRUE).response[1]>>

\* C9: a call whose cache write failed returns no error and the result it
\* computed from the data just fetched; the cache is as it was.
C9_CacheWriteIsBestEffort ==
    (call.seen /\ call.writeFailed) =>
        /\ ~call.err
        /\ call.fetched
        /\ call.result = FreshResult

\* a repository list was fetched, its cache write failed, the list was returned
C9_Witness ==
    /\ call.seen /\ call.op = "ListUserRepositories"
    /\ call.writeFailed /\ ~call.err
    /\ call.result = FreshResult

(* ====================== properties: batch analysis ===================== *)
\* the names of the places of the batch just made whose outcome is not "ok"
RECURSIVE FailedNames(_, _)
FailedNames(b, i) ==
    IF i = 0 THEN <<>>
    ELSE IF b.out.outcome[i] = "ok" THEN FailedNames(b, i - 1)
    ELSE Append(FailedNames(b, i - 1), b.repos[i])

\* C10: BatchAnalyzeRepositories visits every name of its input in order,
\* whatever failed before; the result map holds exactly the names of the places
\* whose analysis succeeded; the joined error has one entry, in order, for each
\* place whose name is malformed or whose analysis failed, and is nil exactly
\* when every place succeeded.
C10_BatchVisitsAllAndJoinsErrors ==
    (call.seen /\ call.op = "BatchAnalyzeRepositories" /\ call.called) =>
        LET b == call
            n == Len(b.repos)
        IN  /\ b.out.visited = b.repos
            /\ Len(b.out.outcome) = n
            /\ \A i \in 1..n :
                  LET name == b.repos[i]
                  IN  /\ Len(name) # 2 => b.out.outcome[i] = "invalid"
                      /\ (Len(name) = 2 /\ GitHubIDOf(name[1], name[2]) = 0)
                            => b.out.outcome[i] = "analysis"
                      /\ (Len(name) = 2 /\ GitHubIDOf(name[1], name[2]) # 0
                            /\ "upstream" \notin b.failing[i])
                            => b.out.outcome[i] = "ok"
            /\ DOMAIN b.out.results = {b.repos[i] : i \in {j \in 1..n : b.out.outcome[j] = "ok"}}
            /\ [k \in DOMAIN b.out.errs |-> b.out.errs[k].name] = FailedNames(b, n)
            /\ (b.out.errs = <<>>) <=> (\A i \in 1..n : b.out.outcome[i] = "ok")
            /\ b.status = IF b.out.errs = <<>> THEN 200 ELSE 500

\* a batch whose first name is malformed and whose second analysis failed,
\* and whose third name was analysed all the same
C10_Witness ==
    /\ call.seen /\ call.op = "BatchAnalyzeRepositories" /\ call.called
    /\ Len(call.repos) = 3
    /\ call.out.outcome = <<"invalid", "analysis", "ok">>
    /\ DOMAIN call.out.results = {call.repos[3]}
    /\ Len(call.out.errs) = 2

(* ==================== properties: status of the answers ================ *)
\* the profile request just answered had no API key or no project
ProfileInputInvalid ==
    /\ call.seen /\ call.op = "GenerateProfile"
    /\ call.apiKey = "" \/ call.projects = 0

\* the batch request just answered named no repository or more than the limit
BatchInputInvalid ==
    /\ call.seen /\ call.op = "BatchAnalyzeRepositories"
    /\ Len(call.repos) = 0 \/ Len(call.repos) > BatchLimit

\* C11 (as claimed): a validation failure is answered 400: a profile
\* generate, preview or deploy request with no API key or an empty project
\* list, a batch analysis of no or of more than 10 repositories, and an OAuth
\* callback without code or without state.
C11_ValidationFailureIs400 ==
    /\ ProfileInputInvalid => call.status = 400
    /\ BatchInputInvalid => call.status = 400
    /\ \A p \in DOMAIN cb : (cb[p].pc = "done" /\ cb[p].missing) => cb[p].status = 400

\* C12 (as claimed): a failure of the database while serving a request is
\* answered with HTTP 500, in the authentication middleware as in the handler
\* behind it.
C12_FailureIs500 ==
    (last.seen /\ last.failed # {}) => last.answer = 500

(* ========================= properties: LLM calls ======================= *)
\* C13: every LLM call of a generation request is made with the API key of
\* that request, also while another request with another key is in flight,
\* and the configuration shared by all requests is never changed.
C13_CallsUseOwnKey ==
    /\ sharedConfig = ServerLLMConfig
    /\ \A p \in DOMAIN gen : \A i \in DOMAIN gen[p].calls :
          gen[p].calls[i] = gen[p].apiKey

\* two requests with different keys have both made their call and neither
\* has returned
C13_Witness ==
    /\ gen["g1"].pc = "assemble" /\ gen["g2"].pc = "assemble"
    /\ gen["g1"].apiKey # gen["g2"].apiKey
    /\ Len(gen["g1"].calls) = 1 /\ Len(gen["g2"].calls) = 1

\* C15: one invocation of GenerateProfile makes at most one generation call,
\* whatever the number of projects, and makes none after a call that failed.
C15_AtMostOneCall ==
    \A p \in DOMAIN gen :
        /\ Len(gen[p].calls) <= 1
        /\ (gen[p].pc = "call") => gen[p].calls = <<>>

\* a request with two projects whose only call failed has returned its error
C15_Witness ==
    \E p \in DOMAIN gen :
        /\ gen[p].projects = 2 /\ gen[p].pc = "done" /\ gen[p].err
        /\ Len(gen[p].calls) = 1

(* ======================= properties: the API key ======================= *)
\* the API keys that requests carry
APIKeys == {"key", "keyA", "keyB"}

\* a cache key has an API key among its parts
KeyInCacheKey(cacheKey) == \E i \in DOMAIN cacheKey : cacheKey[i] \in APIKeys

\* a response has an API key in its document, its skills or its badges
KeyInResponse(response) ==
    \/ \E i \in DOMAIN response.Markdown : \E j \in DOMAIN response.Markdown[i] :
          response.Markdown[i][j] \in APIKeys
    \/ \E i \in DOMAIN response.ExtractedSkills : response.ExtractedSkills[i] \in APIKeys
    \/ \E i \in DOMAIN response.SuggestedBadges :
          response.SuggestedBadges[i].Name \in APIKeys

\* C14: the API key of a request is never stored: no row of users, sessions
\* or generated_profiles holds one, and neither the cache key nor the
\* response that GenerateProfile hands to ProfileCacheRepository.Set does.
C14_APIKeyNeverStored ==
    /\ \A u \in users : {u.github_id, u.username, u.access_token} \cap APIKeys = {}
    /\ \A i \in DOMAIN sessions :
          {sessions[i].state_type, sessions[i].state_value} \cap APIKeys = {}
    /\ \A k \in DOMAIN profileCache :
          ~KeyInCacheKey(k) /\ ~KeyInResponse(profileCache[k].content)
    /\ (call.seen /\ call.op = "GenerateProfile") =>
          \A i \in DOMAIN call.set :
              ~KeyInCacheKey(call.set[i].cacheKey) /\ ~KeyInResponse(call.set[i].response)

\* a request with an API key generated a response and handed it to Set
C14_Witness ==
    /\ call.seen /\ call.op = "GenerateProfile"
    /\ call.apiKey \in APIKeys /\ call.set # <<>>

(* ======================= properties: user rows ========================= *)
\* at most one row per GitHub account, and the row of an account keeps the
\* id it was created with
OneRowPerAccount ==
    /\ \A u, v \in users : u.github_id = v.github_id => u = v
    /\ \A u \in users : /\ u.github_id \in DOMAIN userHist.created
                        /\ u.id = userHist.created[u.github_id].id

\* the row of every account in history has the name and the token of rec
RowsAre(rec) ==
    \A g \in DOMAIN rec : \E u \in users :
        /\ u.github_id = g
        /\ u.username = rec[g].username /\ u.access_token = rec[g].access_token

\* C16 (as claimed): at most one user row per GitHub account, whose id never
\* changes and whose fields and access token are those of the most recent
\* sign-in that was answered 200.
C16_RowIsLastSuccessfulLogin ==
    OneRowPerAccount /\ RowsAre(userHist.answered)

\* C16 (amended): at most one user row per GitHub account, whose id never
\* changes and whose fields and access token are those of the most recent
\* callback whose HandleCallback wrote the row, whether or not that callback
\* went on to be answered 200.
C16_RowIsLastWrite ==
    OneRowPerAccount /\ RowsAre(userHist.written)

\* two callbacks for one account ran side by side: one created the row, the
\* other one's INSERT met the UNIQUE constraint
C16_Witness ==
    \E p, q \in DOMAIN cb :
        /\ cb[p].pc = "done" /\ cb[p].status = 500 /\ cb[p].conflict
        /\ cb[q].pc = "done" /\ cb[q].status = 200
        /\ Cardinality(users) = 1

(* ====================== properties: clearing the cache ================= *)
\* C17 (as claimed): after DELETE /github/cache has answered success, no
\* cached repository list and no cached generated profile of the user
\* remains.
C17_ClearRemovesAll ==
    (call.seen /\ call.op = "ClearUserCache" /\ call.status = 200) =>
        /\ \A k \in DOMAIN listCache : k[1] # call.key
        /\ \A k \in DOMAIN profileCache : profileCache[k].user_id # call.key

(* ========================= properties: cleanup ========================= *)
\* AuthMiddleware would still accept, at time t, a token with this JTI:
\* the server issued it and t does not exceed its exp
AcceptedAsUnexpired(jti, t) ==
    \E tok \in issued : LET v == validateJWT(tok, ServerSecret)
                        IN  v.ok /\ v.claims.jti = jti /\ ~(Unix(t) > v.claims.exp)

\* C18 (as claimed): cleanup_expired_data removes only rows whose expires_at
\* lies in the past: no OAuth state that ValidateOAuthState would accept, no
\* revocation record of a token that AuthMiddleware would still accept as
\* unexpired, and no deployed profile.
C18_CleanupRemovesOnlyExpired ==
    (call.seen /\ call.op = "cleanup_expired_data") =>
        /\ \A i \in DOMAIN call.sessions :
              /\ call.sessions[i].expires_at < call.at
              /\ call.sessions[i].state_type = "oauth_state" =>
                    ~ValidateOAuthState(call.sessions, i[2], call.at)
              /\ call.sessions[i].state_type = "revoked_token" =>
                    ~AcceptedAsUnexpired(i[2], call.at)
        /\ \A k \in DOMAIN call.profiles :
              call.profiles[k].expires_at < call.at /\ ~call.profiles[k].deployed

(* ======================== properties: deployment ======================= *)
\* C19 (as claimed): when README.md exists, DeployProfileREADME writes with
\* the current SHA of the file and the Update message; it attempts a create,
\* with no SHA and the Create message, only when the file does not exist.
C19_CreateOnlyWhenAbsent ==
    (call.seen /\ call.op = "GenerateProfile" /\ call.deploy.attempted) =>
        IF call.deploy.existed
        THEN /\ call.deploy.sha = call.deploy.before
             /\ call.deploy.message = "Update profile README via GitRight"
        ELSE /\ call.deploy.sha = NoSHA
             /\ call.deploy.message = "Create profile README via GitRight"

(* ========================== properties: badges ========================= *)
\* the scope of a scoped npm package name, as written
NpmScope(dep) ==
    CASE dep = "@Angular/Core" -> "Angular"
      [] dep = "@nestjs/core" -> "nestjs"
      [] dep = "@types/react" -> "types"
      [] OTHER -> dep

\* the names given to the badges: emphasized skills, languages, dependency
\* names with scoped packages reduced to their scope, LLM-extracted skills
NamesGiven ==
    Range(pipeIn.req.EmphasizedSkills)
      \cup UNION {DOMAIN pipeIn.req.Projects[i].Languages : i \in DOMAIN pipeIn.req.Projects}
      \cup UNION {{NpmScope(d) : d \in Range(pipeIn.req.Projects[i].Dependencies)} :
                    i \in DOMAIN pipeIn.req.Projects}
      \cup Range(pipeIn.resp.ExtractedSkills)

\* the name is the canonical name or an alias of the technology, whatever its case
NameMatches(name, entry) ==
    \/ ToLower(name) = ToLower(entry.Name)
    \/ \E al \in DOMAIN CatalogAliases :
          ToLower(al) = ToLower(name) /\ CatalogAliases[al] = entry.Name

MatchedEntries ==
    {e \in Range(CatalogEntries) : \E name \in NamesGiven : NameMatches(name, e)}

\* C20: buildBadgesFromProjectData returns exactly one badge for each catalog
\* technology matched, by canonical name or alias in any case, by an
\* emphasized skill, a language of a project, a dependency name (a scoped npm
\* package reduced to its scope) or an LLM-extracted skill; no badge name
\* occurs twice and a name out of the catalog gives no badge.
C20_OneBadgePerMatchedTechnology ==
    \A r \in Runs : runs[r].pc = "markdown" =>
        /\ Range(runs[r].badges) = MatchedEntries
        /\ \A i, j \in DOMAIN runs[r].badges :
              runs[r].badges[i].Name = runs[r].badges[j].Name => i = j

\* badges were built from a scoped dependency, an alias and a name for the
\* same technology, and a name out of the catalog
C20_Witness ==
    /\ runs[1].pc = "markdown"
    /\ Range(pipeIn.req.EmphasizedSkills) = {"COBOL", "Go"}
    /\ "@Angular/Core" \in Range(pipeIn.req.Projects[1].Dependencies)
    /\ "Go" \in DOMAIN pipeIn.req.Projects[1].Languages
    /\ {b.Name : b \in Range(runs[1].badges)} = {"Go", "Angular"}
    /\ Len(runs[1].badges) = 2

(* ======================== properties: categories ======================= *)
\* how often the badge occurs in the slice
Occurrences(b, slice) == Cardinality({i \in DOMAIN slice : slice[i] = b})

\* the length of a group, 0 for a group that is not returned
GroupLen(categories, cat) ==
    IF cat \in DOMAIN categories THEN Len(categories[cat]) ELSE 0

\* C21: organizeBadgesByCategory returns a partition of the input badges over
\* the four display groups: every input badge is in exactly one group, as
\* often as in the input, the number of badges is preserved and no group
\* returned is empty.
C21_GroupsPartitionBadges ==
    runs[1].pc = "organized" =>
        LET badges == runs[1].badges
            categories == runs[1].categories
        IN  /\ DOMAIN categories \subseteq Range(CategoryOrder)
            /\ \A cat \in DOMAIN categories : Len(categories[cat]) > 0
            /\ GroupLen(categories, CategoryOrder[1]) + GroupLen(categories, CategoryOrder[2])
                  + GroupLen(categories, CategoryOrder[3])
                  + GroupLen(categories, CategoryOrder[4]) = Len(badges)
            /\ \A b \in Range(badges) :
                  \E cat \in DOMAIN categories :
                      /\ Occurrences(b, categories[cat]) = Occurrences(b, badges)
                      /\ \A other \in DOMAIN categories \ {cat} :
                            b \notin Range(categories[other])

\* a slice with one badge twice and a badge of no set was grouped, and two
\* of the four groups came back
C21_Witness ==
    /\ runs[1].pc = "organized"
    /\ Len(runs[1].badges) = 3
    /\ runs[1].badges[1] = runs[1].badges[3]
    /\ runs[1].badges[1].Name = "Go"
    /\ runs[1].badges[2].Name = "COBOL"
    /\ DOMAIN runs[1].categories = {"Languages", "Tools & Platforms"}

(* ======================= properties: OAuth states ====================== *)
\* C22 (as claimed): an OAuth state is single-use: once a Callback carrying a
\* state has been answered 200, no other Callback carrying that state is
\* answered 200, neither a later one nor one running side by side with it.
C22_StateIsSingleUse ==
    \A s \in DOMAIN userHist.succeeded : userHist.succeeded[s] <= 1

====
